---- MODULE Spec2Model ----
(***************************************************************************)
(* A model of app.py, the NBA Wins/Losses Pool Tracker: the scoring        *)
(* tables (calc_tables), the weekly History snapshots (upsert_history and  *)
(* the weekly chart), the Save Draft handler, the ESPN standings fetch and *)
(* the top-to-bottom order of one script run.                              *)
(*                                                                         *)
(* Text is modelled as a sequence of one-character strings, so that        *)
(* slicing, stripping, length checks and parsing are computed as the code  *)
(* computes them.  None is the one-element sequence <<"None">>, which no   *)
(* text equals.  A percentage with one decimal is an integer number of     *)
(* tenths (33.3 is 333).                                                   *)
(*                                                                         *)
(* calc_tables rounds the player table's P% with round() on a pandas       *)
(* column that is an object column as soon as one PLYR has no game; what   *)
(* round() does with it depends on the pandas release installed, which the *)
(* variable pandas holds.                                                  *)
(***************************************************************************)
EXTENDS Integers, Sequences, FiniteSets, TLC

VARIABLES
    pc,             \* position of the modelled step
    draft_df,       \* the draft frame handed to calc_tables (editable_df)
    standings,      \* the standings frame: rows [Team, Abbr, W, L]
    player_table,   \* calc_tables' first result
    per_team_df,    \* calc_tables' second result
    ts1, ts2,       \* two UTC timestamps, [day, sec]
    ws1, ws2,       \* their WeekStart texts
    historyTab,     \* the data rows of the History worksheet, cells as text
    now,            \* the UTC clock, [day, sec]
    calls,          \* upsert_history calls made so far
    hist_df,        \* the chart's frame: History rows with P_week
    hist3,          \* the rows the chart plots
    notice,         \* the st.info shown by the chart step
    snap,           \* the last snapshot taken of each (WeekStart, PLYR)
    upserts,        \* per browser session: the History step's requests in flight
    raised,         \* requests to the spreadsheet that raised so far
    draftTab,       \* the data rows of the Draft worksheet, cells as text
    saveResult,     \* what the Save Draft handler did last
    saves,          \* per browser session: write_draft's requests in flight
    responses,      \* what each ESPN URL answers
    requested,      \* the URLs requested so far, by position in urls
    fetchIdx,       \* the position of the loop over urls
    fetchError,     \* the exception fetch_nba_standings raised
    log,            \* the steps the running script run has taken
    runs,           \* script runs started so far
    cache,          \* st.cache_data's entry for fetch_nba_standings
    pt_display,     \* the Player Standings table as displayed
    who,            \* the choice of "Filter by player"
    ptm,            \* the Per-Team Breakdown as displayed
    pandas          \* what the installed pandas does with round() of an object column

calcVars == <<draft_df, standings, player_table, per_team_df>>
weekVars == <<ts1, ts2, ws1, ws2>>
histVars == <<historyTab, now, calls, hist_df, hist3, notice, snap, upserts, raised>>
saveVars == <<draftTab, saveResult, saves>>
fetchVars == <<responses, requested, fetchIdx, fetchError>>
runVars == <<log, runs, cache>>
viewVars == <<pt_display, who, ptm>>
vars == <<pc, calcVars, weekVars, histVars, saveVars, fetchVars, runVars, viewVars, pandas>>

(***************************************************************************)
(* Text                                                                    *)
(***************************************************************************)
None == <<"None">>

\* The characters of the model's texts, in code point order: Python's
\* whitespace below U+2000, printable ASCII without the grave accent, the
\* superscript digits and the Latin-1 letters.
Chars ==
    <<"\t", "\n", "", "\f", "\r", "", "", "", "", " ", "!", "\"", "#", "$", "%", "&", "'",
      "(", ")", "*", "+", ",", "-", ".", "/", "0", "1", "2", "3", "4", "5", "6", "7", "8", "9",
      ":", ";", "<", "=", ">", "?", "@", "A", "B", "C", "D", "E", "F", "G", "H", "I", "J", "K",
      "L", "M", "N", "O", "P", "Q", "R", "S", "T", "U", "V", "W", "X", "Y", "Z", "[", "\\",
      "]", "^", "_", "a", "b", "c", "d", "e", "f", "g", "h", "i", "j", "k", "l", "m", "n",
      "o", "p", "q", "r", "s", "t", "u", "v", "w", "x", "y", "z", "{", "|", "}", "~", "", " ", "²", "³", "¹",
      "À", "Á", "Â", "Ã", "Ä", "Å", "Æ", "Ç", "È", "É", "Ê", "Ë", "Ì", "Í", "Î", "Ï", "Ð", "Ñ",
      "Ò", "Ó", "Ô", "Õ", "Ö", "Ø", "Ù", "Ú", "Û", "Ü", "Ý", "Þ", "à", "á", "â", "ã", "ä", "å",
      "æ", "ç", "è", "é", "ê", "ë", "ì", "í", "î", "ï", "ð", "ñ", "ò", "ó", "ô", "õ", "ö", "ø",
      "ù", "ú", "û", "ü", "ý", "þ", " ">>

OrdOf == [c \in {Chars[i] : i \in 1..Len(Chars)} |->
             CHOOSE i \in 1..Len(Chars) : Chars[i] = c]

Ord(c) == OrdOf[c]

Min(a, b) == IF a < b THEN a ELSE b

\* A cell of a frame that holds a number and not a text.
Number(v) == <<"number", v>>
IsNumberCell(x) == Len(x) = 2 /\ x[1] = "number"

\* Python's truth value of a cell: None, "" and a number that is 0 are false.
Truthy(s) ==
    /\ s # None
    /\ s # <<>>
    /\ ~(IsNumberCell(s) /\ s[2].t \in {"int", "float"} /\ s[2].n = 0)

\* s[:n]
Prefix(s, n) == SubSeq(s, 1, Min(n, Len(s)))

\* Python's < on str: by code point at the first difference, a proper
\* prefix first.
StrLess(a, b) ==
    LET diff == {i \in 1..Min(Len(a), Len(b)) : a[i] # b[i]}
    IN  IF diff = {} THEN Len(a) < Len(b)
        ELSE LET i == CHOOSE x \in diff : \A y \in diff : x <= y
             IN  Ord(a[i]) < Ord(b[i])

\* The characters str.isspace() holds of, below U+2000: U+0009 to U+000D,
\* U+001C to U+001F, U+0020, U+0085, U+00A0 and U+1680.
Blanks ==
    <<"\t", "\n", "", "\f", "\r", "", "", "", "", " ", "", " ", " ">>

BlankSet == {Blanks[i] : i \in 1..Len(Blanks)}

\* str.isspace(): what str.strip() strips and what the regular expressions'
\* \s matches.
IsSpace(c) == c \in BlankSet

RECURSIVE LStrip(_)
LStrip(s) == IF s # <<>> /\ IsSpace(Head(s)) THEN LStrip(Tail(s)) ELSE s

RECURSIVE RStrip(_)
RStrip(s) ==
    IF s # <<>> /\ IsSpace(s[Len(s)]) THEN RStrip(SubSeq(s, 1, Len(s) - 1)) ELSE s

\* str.strip()
Strip(s) == RStrip(LStrip(s))

\* re.sub(r"\s{2,}", " ", s): every run of two or more whitespace characters
\* becomes one space; a single whitespace character stays as it is.
RECURSIVE CollapseSpaces(_)
CollapseSpaces(s) ==
    IF Len(s) < 2 THEN s
    ELSE IF IsSpace(s[1]) /\ IsSpace(s[2]) THEN <<" ">> \o CollapseSpaces(LStrip(s))
    ELSE <<Head(s)>> \o CollapseSpaces(Tail(s))

normalize_team_name(s) == CollapseSpaces(Strip(IF Truthy(s) THEN s ELSE <<>>))

\* The cased letters of the model's alphabet: ASCII and Latin-1, each with a
\* one-character counterpart.
LowerLetters == <<"a", "b", "c", "d", "e", "f", "g", "h", "i", "j", "k", "l", "m", "n",
                  "o", "p", "q", "r", "s", "t", "u", "v", "w", "x", "y", "z", "à", "á",
                  "â", "ã", "ä", "å", "æ", "ç", "è", "é", "ê", "ë", "ì", "í", "î", "ï",
                  "ð", "ñ", "ò", "ó", "ô", "õ", "ö", "ø", "ù", "ú", "û", "ü", "ý", "þ">>
UpperLetters == <<"A", "B", "C", "D", "E", "F", "G", "H", "I", "J", "K", "L", "M", "N",
                  "O", "P", "Q", "R", "S", "T", "U", "V", "W", "X", "Y", "Z", "À", "Á",
                  "Â", "Ã", "Ä", "Å", "Æ", "Ç", "È", "É", "Ê", "Ë", "Ì", "Í", "Î", "Ï",
                  "Ð", "Ñ", "Ò", "Ó", "Ô", "Õ", "Ö", "Ø", "Ù", "Ú", "Û", "Ü", "Ý", "Þ">>

\* str.upper() and str.lower()
UpperChar(c) ==
    IF \E i \in 1..Len(LowerLetters) : LowerLetters[i] = c
    THEN UpperLetters[CHOOSE i \in 1..Len(LowerLetters) : LowerLetters[i] = c]
    ELSE c
Upper(s) == [i \in 1..Len(s) |-> UpperChar(s[i])]

LowerChar(c) ==
    IF \E i \in 1..Len(UpperLetters) : UpperLetters[i] = c
    THEN LowerLetters[CHOOSE i \in 1..Len(UpperLetters) : UpperLetters[i] = c]
    ELSE c
Lower(s) == [i \in 1..Len(s) |-> LowerChar(s[i])]

(***************************************************************************)
(* Frames                                                                  *)
(***************************************************************************)
\* Tuples of numbers, compared from the first column on.
RECURSIVE LexGreater(_, _)
LexGreater(a, b) ==
    IF a = <<>> THEN FALSE
    ELSE IF Head(a) # Head(b) THEN Head(a) > Head(b)
    ELSE LexGreater(Tail(a), Tail(b))

\* DataFrame.sort_values on several columns, all descending: a stable sort.
\* keys[i] holds the sort columns of row s[i]; the result lists the indices
\* of s in sorted order, built by inserting each row after the rows that do
\* not sort behind it.
RECURSIVE OrderDesc(_, _)
OrderDesc(keys, n) ==
    IF n = 0 THEN <<>>
    ELSE LET o == OrderDesc(keys, n - 1)
             p == Cardinality({j \in 1..Len(o) : ~LexGreater(keys[n], keys[o[j]])})
         IN  SubSeq(o, 1, p) \o <<n>> \o SubSeq(o, p + 1, Len(o))

SortDesc(s, keys) ==
    LET o == OrderDesc(keys, Len(s)) IN [k \in 1..Len(s) |-> s[o[k]]]

\* The rows of s at the indices idx, in order.
SelectRows(s, idx) ==
    [k \in 1..Cardinality(idx) |->
        s[CHOOSE i \in idx : Cardinality({j \in idx : j < i}) = k - 1]]

\* The texts of a set, ascending (groupby's sorted group keys).
SortedKeys(S) ==
    [k \in 1..Cardinality(S) |->
        CHOOSE x \in S : Cardinality({y \in S : StrLess(y, x)}) = k - 1]

\* The sum of a column.
RECURSIVE SumSeq(_)
SumSeq(q) == IF q = <<>> THEN 0 ELSE Head(q) + SumSeq(Tail(q))

RECURSIVE Gcd(_, _)
Gcd(a, b) == IF b = 0 THEN a ELSE Gcd(b, a % b)

\* The fraction n / d in lowest terms, <<numerator, denominator>>.
Frac(n, d) == <<n \div Gcd(n, d), d \div Gcd(n, d)>>

\* 2^k modulo n.
RECURSIVE PowMod2(_, _)
PowMod2(k, n) == IF k = 0 THEN 1 % n ELSE (2 * PowMod2(k - 1, n)) % n

\* The binary exponent of the quotient a / b (a, b > 0): <<j, x, y>> with
\* x / y = a / b, 1 <= x / y < 2 and a * 2^j / b = x / y.
RECURSIVE BinExp(_, _, _)
BinExp(j, x, y) ==
    IF x < y THEN BinExp(j + 1, 2 * x, y)
    ELSE IF x >= 2 * y THEN BinExp(j - 1, x, 2 * y)
    ELSE <<j, x, y>>

\* The error of the two float operations of (p / g) * 100: p / g is rounded
\* to the nearest double m * 2^-k (53 bits, half to even), m * 100 is rounded
\* to 53 bits again.  m is only needed modulo 256; t is p * 2^k modulo
\* 256 * g.  The result is g * 2^k * (float - 100 * p / g): its sign is the
\* side of the exact value the float lies on.  (p, g > 0, g < 2896.)
FloatErrOf(p, g, t, top) ==
    LET r == t % g
        up == IF 2 * r > g THEN 1 ELSE 0
        A == (100 * (((t \div g) + up) % 256)) % (2 * top)
        low == A % top
    IN  g * (IF 2 * low < top \/ (2 * low = top /\ (A \div top) % 2 = 0)
             THEN 0 - low ELSE top - low)
        + 100 * (IF up = 1 THEN g - r ELSE 0 - r)

FloatErrAt(p, g, e) ==
    FloatErrOf(p, g, (p * PowMod2(52 + e[1], 256 * g)) % (256 * g),
               IF 25 * e[2] >= 32 * e[3] THEN 128 ELSE 64)

FloatErr(p, g) == FloatErrAt(p, g, BinExp(0, p, g))

\* round((n / d) * 100, 1) in tenths of a percent, and 0.0 when d = 0 (the
\* "if GP else 0.0").  The float (n / d) * 100 lies within 1e-13 of the exact
\* value, so it rounds as the exact value does unless that is a tie (an odd
\* multiple of 0.05); on a tie the float's error decides, and a float that is
\* exactly the tie rounds to the even tenth.
Pct(n, d) ==
    IF d = 0 THEN 0
    ELSE LET q == (1000 * n) \div d
             r == (1000 * n) % d
         IN  IF 2 * r # d THEN (IF 2 * r > d THEN q + 1 ELSE q)
             ELSE IF FloatErr(n, d) > 0 \/ (FloatErr(n, d) = 0 /\ q % 2 = 1)
                  THEN q + 1 ELSE q

\* Series.round(1) of the float64 (n / d) * 100, in tenths of a percent
\* (d > 0): numpy multiplies the float by 10, takes rint (half to even) and
\* divides by 10.  The product rounds as the exact value does unless that is
\* a tie.  On a tie the product is the float nearest to the tie plus ten
\* times the float's error: the tie itself when that is within half a unit
\* in the last place (the unit is halved below 0.5), which rint takes to the
\* even tenth, and a float on the side of the error otherwise.
RoundPct(n, d) ==
    LET q == (1000 * n) \div d
        r == (1000 * n) % d
        e == BinExp(0, n, d)
        half == d * (IF 125 * e[2] >= 128 * e[3] THEN 512 ELSE 256)
        F == FloatErrAt(n, d, e)
    IN  IF 2 * r # d THEN (IF 2 * r > d THEN q + 1 ELSE q)
        ELSE IF 10 * (IF F < 0 THEN 0 - F ELSE F)
                    <= (IF q = 0 /\ F < 0 THEN half \div 2 ELSE half)
             THEN (IF q % 2 = 0 THEN q ELSE q + 1)
        ELSE IF F > 0 THEN q + 1 ELSE q

(***************************************************************************)
(* calc_tables                                                             *)
(***************************************************************************)
Wins == <<"W", "i", "n", "s">>
Losses == <<"L", "o", "s", "s", "e", "s">>

\* PLYR values are cut to this many characters.
PlyrLen == 6

\* standings.set_index("TeamNorm")[...].to_dict(orient="index") raises
\* ValueError unless every TeamNorm is the key of one row.
DupTeamNorm(st) ==
    \E i, j \in 1..Len(st) :
        i # j /\ normalize_team_name(st[i].Team) = normalize_team_name(st[j].Team)

\* team_stats.get(team_key): the standings row whose TeamNorm is the key
\* (one row at most, once team_stats is built).
HasTeam(st, key) == \E i \in 1..Len(st) : normalize_team_name(st[i].Team) = key
TeamRow(st, key) == st[CHOOSE i \in 1..Len(st) : normalize_team_name(st[i].Team) = key]

\* The wins and losses a draft entry is scored with.
EntryW(r, st) ==
    LET team_key == normalize_team_name(r.Team)
    IN  IF HasTeam(st, team_key) THEN TeamRow(st, team_key).W ELSE 0

EntryL(r, st) ==
    LET team_key == normalize_team_name(r.Team)
    IN  IF HasTeam(st, team_key) THEN TeamRow(st, team_key).L ELSE 0

\* Points that ignore the entry's PointType.
Points_AlwaysWins(pt, W, L) == W

\* points / non_points of an entry.
Points(pt, W, L) == IF pt = Wins THEN W ELSE L
NonPoints(pt, W, L) == IF pt = Wins THEN L ELSE W

\* A PLYR that is not filled in from Player.
EntryPlyr_NoFallback(r) == IF Truthy(r.PLYR) THEN r.PLYR ELSE <<>>

\* plyr = r["PLYR"] or (player[:6] if player else "")
EntryPlyr(r) ==
    IF Truthy(r.PLYR) THEN r.PLYR
    ELSE IF Truthy(r.Player) THEN Prefix(r.Player, PlyrLen) ELSE <<>>

\* (r.get("TeamAbbr", "") or "").strip() of a cell; a number other than 0
\* has no strip(), see CalcRaises.
AbbrText(x) == IF Truthy(x) /\ ~IsNumberCell(x) THEN Strip(x) ELSE <<>>

\* One row of the per-team table, from one draft entry.
PerTeamRow(r, st) ==
    LET team_key == normalize_team_name(r.Team)
        W == EntryW(r, st)
        L == EntryL(r, st)
        GP == W + L
        abbr == IF AbbrText(r.TeamAbbr) # <<>>
                THEN AbbrText(r.TeamAbbr)
                ELSE IF HasTeam(st, team_key) THEN TeamRow(st, team_key).Abbr ELSE <<>>
    IN  [PLYR |-> EntryPlyr(r), P_FULL |-> r.Player, TM |-> abbr,
         PT |-> IF r.PointType = Wins THEN "W" ELSE "L",
         P |-> Points(r.PointType, W, L), NP |-> NonPoints(r.PointType, W, L),
         Ppct |-> Pct(Points(r.PointType, W, L), GP),
         W |-> W, L |-> L, Wpct |-> Pct(W, GP), GP |-> GP, TMF |-> r.Team]

\* The rows list built by the loop over draft_df, in draft order.
PerTeamRows(df, st) == [i \in 1..Len(df) |-> PerTeamRow(df[i], st)]

\* A PLYR group without a game: agg["GP"] holds a 0.
ZeroGroup(rows) ==
    \E i \in 1..Len(rows) : \A j \in 1..Len(rows) : rows[j].PLYR = rows[i].PLYR => rows[j].GP = 0

\* A P% of the player table: the float nearest n / 10 (rounded to one
\* decimal), or the float (n / d) * 100 left as it was computed, n / d in
\* lowest terms.
Rounded(tenths) == [raw |-> FALSE, n |-> tenths, d |-> 10]
Unrounded(P, GP) == [raw |-> TRUE, n |-> Frac(P, GP)[1], d |-> Frac(P, GP)[2]]

\* agg["P%"] = round((agg["P"] / agg["GP"].replace(0, pd.NA)) * 100, 1).fillna(0.0)
\* Without a 0 in agg["GP"] the column is float64 and Series.round rounds
\* it.  With one, replace() makes it an object column; round() of an object
\* column either raises (CalcRaises) or returns the column as it is, the
\* quotients left unrounded and the NA of the 0 filled with 0.0.
AggPct(P, GP, object) ==
    IF ~object THEN Rounded(RoundPct(P, GP))
    ELSE IF GP = 0 THEN Unrounded(0, 1) ELSE Unrounded(P, GP)

\* groupby("PLYR").agg(sum) with P% and the TM list, one row per PLYR,
\* group keys ascending.
AggRow(rows, k) ==
    LET g == SelectRows(rows, {i \in 1..Len(rows) : rows[i].PLYR = k})
        tms == SelectRows(rows, {i \in 1..Len(rows) :
                                    rows[i].PLYR = k /\ rows[i].TM # <<>>})
        P == SumSeq([i \in 1..Len(g) |-> g[i].P])
        NP == SumSeq([i \in 1..Len(g) |-> g[i].NP])
        GP == SumSeq([i \in 1..Len(g) |-> g[i].GP])
    IN  [PLYR |-> k, GP |-> GP, P |-> P, NP |-> NP,
         Ppct |-> AggPct(P, GP, ZeroGroup(rows)),
         TMF |-> [i \in 1..Len(tms) |-> tms[i].TM]]

Agg(rows) ==
    LET keys == SortedKeys({rows[i].PLYR : i \in 1..Len(rows)})
    IN  [i \in 1..Len(keys) |-> AggRow(rows, keys[i])]

\* A P% in tenths, as the fraction <<numerator, denominator>>.
Tenths(v) == IF v.raw THEN <<1000 * v.n, v.d>> ELSE <<v.n, 1>>

\* < and == on two P% of one table: two quotients of small integers are the
\* same float when they are equal and floats in their order when they are not.
PctLess(a, b) == Tenths(a)[1] * Tenths(b)[2] < Tenths(b)[1] * Tenths(a)[2]
PctEq(a, b) == Tenths(a)[1] * Tenths(b)[2] = Tenths(b)[1] * Tenths(a)[2]

\* The P% column as integers in the order of its values: every value over
\* the product of the denominators.
RECURSIVE DenProd(_)
DenProd(s) == IF s = <<>> THEN 1 ELSE Tenths(Head(s).Ppct)[2] * DenProd(Tail(s))
PctKeys(s) ==
    [i \in 1..Len(s) |-> Tenths(s[i].Ppct)[1] * (DenProd(s) \div Tenths(s[i].Ppct)[2])]

\* An ordering of the players by P first.
PlayerKeys_PFirst(s) == [i \in 1..Len(s) |-> <<s[i].P, PctKeys(s)[i], s[i].GP>>]

\* sort_values(["P%", "P", "GP"], ascending=[False, False, False])
PlayerKeys(s) == [i \in 1..Len(s) |-> <<PctKeys(s)[i], s[i].P, s[i].GP>>]

\* sort_values(["P%", "P", "W"], ascending=[False, False, False])
TeamKeys(s) == [i \in 1..Len(s) |-> <<s[i].Ppct, s[i].P, s[i].W>>]

\* calc_tables raises: the ValueError of to_dict, the AttributeError of
\* strip() on a TeamAbbr that is a number other than 0, or the TypeError of
\* round() on an object column in the pandas releases that do not accept one.
CalcRaises(df, st) ==
    \/ DupTeamNorm(st)
    \/ \E i \in 1..Len(df) : IsNumberCell(df[i].TeamAbbr) /\ Truthy(df[i].TeamAbbr)
    \/ pandas = "round_raises" /\ ZeroGroup(PerTeamRows(df, st))

\* The player table calc_tables returns.
CalcPlayerTable(df, st) ==
    IF df = <<>> THEN <<>>
    ELSE LET agg == Agg(PerTeamRows(df, st)) IN SortDesc(agg, PlayerKeys(agg))

CalcPerTeam(df, st) ==
    IF df = <<>> THEN <<>>
    ELSE LET rows == PerTeamRows(df, st) IN SortDesc(rows, TeamKeys(rows))

(***************************************************************************)
(* Dates and week_start_monday_utc                                         *)
(*                                                                         *)
(* A day is counted from 1970-01-01 (day 0); a timestamp is a day and a    *)
(* second of that day, in UTC.                                             *)
(***************************************************************************)
\* datetime.weekday(): Monday is 0, Sunday is 6 (1970-01-01 was a Thursday).
Weekday(day) == (day + 3) % 7

\* The calendar date [y, m, d] of a day.
DateOf(day) ==
    LET z == day + 719468
        era == z \div 146097
        doe == z - era * 146097
        yoe == (doe - doe \div 1460 + doe \div 36524 - doe \div 146096) \div 365
        doy == doe - (365 * yoe + yoe \div 4 - yoe \div 100)
        mp == (5 * doy + 2) \div 153
        m == IF mp < 10 THEN mp + 3 ELSE mp - 9
    IN  [y |-> yoe + era * 400 + (IF m <= 2 THEN 1 ELSE 0), m |-> m,
         d |-> doy - (153 * mp + 2) \div 5 + 1]

Digits == <<"0", "1", "2", "3", "4", "5", "6", "7", "8", "9">>
Digit(n) == Digits[n + 1]

\* str(n) of a natural number.
RECURSIVE IntText(_)
IntText(n) == IF n < 10 THEN <<Digit(n)>> ELSE IntText(n \div 10) \o <<Digit(n % 10)>>

\* n zero-padded to two digits (%m, %d, %H, %M, %S).
Two(n) == <<Digit(n \div 10), Digit(n % 10)>>

\* strftime("%Y-%m-%d")
DateText(day) ==
    LET c == DateOf(day) IN IntText(c.y) \o <<"-">> \o Two(c.m) \o <<"-">> \o Two(c.d)

\* strftime("%Y-%m-%d %H:%M:%S")
DateTimeText(ts) ==
    DateText(ts.day) \o <<" ">> \o Two(ts.sec \div 3600) \o <<":">>
        \o Two((ts.sec % 3600) \div 60) \o <<":">> \o Two(ts.sec % 60)

\* pd.Timestamp(ts).to_period("W-MON").start_time: pandas' anchored weekly
\* frequency W-MON is the week that ENDS on Monday, so the period holding a
\* day starts on the Tuesday on or before it.
PeriodStart(day) == day - ((Weekday(day) - 1) % 7)

week_start_monday_utc(ts) == DateText(PeriodStart(ts.day))

\* Days of the timestamps the week function is applied to.
MaxDay == 13

\* Monday 2025-10-20, the day before the season opens.
FirstDay == 20381

Timestamps == [day : FirstDay..(FirstDay + MaxDay), sec : {0, 86399}]

IdleCalc ==
    draft_df = <<>> /\ standings = <<>> /\ player_table = <<>> /\ per_team_df = <<>>

\* The browser sessions.  Streamlit runs the script of each session in a
\* thread of its own, and the requests the sessions send to the sheet
\* interleave.
Sessions == {1, 2}

\* A session with no request to the sheet in flight.
NoRequest == [at |-> "idle", values |-> <<>>, rows |-> {}]
Quiet(reqs) == \A s \in Sessions : reqs[s].at = "idle"

IdleHist ==
    /\ historyTab = <<>> /\ now = None /\ calls = 0
    /\ hist_df = <<>> /\ hist3 = <<>> /\ notice = "" /\ snap = {}
    /\ upserts = [s \in Sessions |-> NoRequest]
    /\ raised = 0

IdleSave ==
    /\ draftTab = <<>> /\ saveResult = ""
    /\ saves = [s \in Sessions |-> NoRequest]

\* The pandas release of the specifications that compute no player table
\* with a PLYR without games.
IdleBuild == pandas = "round_raises"

IdleFetch == responses = <<>> /\ requested = <<>> /\ fetchIdx = 0 /\ fetchError = ""

IdleRun == log = <<>> /\ runs = 0 /\ cache = <<>>

IdleView == pt_display = <<>> /\ who = None /\ ptm = <<>>

\* round() of an object column raises TypeError in pandas up to 2.0 and from
\* 3.0 on, and returns the column unchanged in the releases between; the
\* requirements do not pin a release.
Builds == {"round_raises", "round_skips"}

IdleWeek == ts1 = None /\ ts2 = None /\ ws1 = None /\ ws2 = None

InitWeek ==
    /\ pc = "week"
    /\ ts1 \in Timestamps
    /\ ts2 \in Timestamps
    /\ ws1 = None
    /\ ws2 = None
    /\ IdleCalc
    /\ IdleHist
    /\ IdleSave
    /\ IdleFetch
    /\ IdleRun
    /\ IdleView
    /\ IdleBuild

\* week_start = week_start_monday_utc(now_utc), for two instants.
WeekStarts ==
    /\ pc = "week"
    /\ pc' = "weekdone"
    /\ ws1' = week_start_monday_utc(ts1)
    /\ ws2' = week_start_monday_utc(ts2)
    /\ UNCHANGED <<ts1, ts2, calcVars, histVars, saveVars, fetchVars, runVars>>
    /\ UNCHANGED <<viewVars, pandas>>

NextWeek == WeekStarts

SpecWeek == InitWeek /\ [][NextWeek]_vars

\* C5: week_start_monday_utc returns the Monday that starts the week of the
\* timestamp: the returned date is a Monday, not later than the timestamp's
\* date and at most 6 days before it, and two timestamps get the same
\* WeekStart exactly when they fall in the same Monday-to-Sunday week.
C5_WeekStartIsMonday ==
    pc = "weekdone" =>
        /\ \E d \in (ts1.day - 7)..ts1.day :
            /\ ws1 = DateText(d)
            /\ Weekday(d) = 0
            /\ ts1.day - d <= 6
        /\ (ws1 = ws2) <=> (ts1.day - Weekday(ts1.day) = ts2.day - Weekday(ts2.day))

(***************************************************************************)
(* Inputs of calc_tables                                                   *)
(***************************************************************************)
AliceJo == <<"A", "l", "i", "c", "e", "J", "o">>
Bob == <<"B", "o", "b">>
AL == <<"A", "L">>
Hawks == <<"H", "a", "w", "k", "s">>
LANets == <<"L", "A", " ", "N", "e", "t", "s">>
\* The same team under a name with two blanks: another Team, the same TeamNorm.
LANetsWide == <<"L", "A", " ", " ", "N", "e", "t", "s">>
\* "LA Nets" as typed with stray blanks, a tab in front and a no-break space
\* (U+00A0) after the space: normalizes to LANets.
LANetsTyped == <<"\t", "L", "A", " ", Blanks[12], "N", "e", "t", "s">>
Jazz == <<"J", "a", "z", "z">>
ATL == <<"A", "t", "l">>
LAN == <<"L", "a", "n">>

\* Longest draft frame and most games a team has played.
MaxDraft == 3
MaxGames == 1

Entry(player, plyr, team, pt) ==
    [Player |-> player, PLYR |-> plyr, Team |-> team, PointType |-> pt,
     TeamAbbr |-> <<>>]

\* Draft rows: two players, with and without a PLYR, on teams of the
\* standings; a team the standings do not hold; a row with no team; and a
\* row added in the editor and left blank (its cells are None).
Entries ==
    {Entry(p, a, tp[1], tp[2]) :
        p \in {AliceJo, Bob}, a \in {<<>>, AL},
        tp \in {<<Hawks, Wins>>, <<LANetsTyped, Losses>>}}
    \cup {Entry(Bob, <<>>, Jazz, Wins), Entry(AliceJo, AL, <<>>, Losses),
          [Player |-> None, PLYR |-> None, Team |-> None, PointType |-> Wins,
           TeamAbbr |-> None]}

RECURSIVE SeqsUpTo(_, _)
SeqsUpTo(S, n) ==
    IF n = 0 THEN {<<>>}
    ELSE LET shorter == SeqsUpTo(S, n - 1)
         IN  shorter \cup {Append(s, x) : s \in {q \in shorter : Len(q) = n - 1}, x \in S}

Drafts == SeqsUpTo(Entries, MaxDraft)

\* Standings as fetch_nba_standings returns them: sorted by Team, one row
\* per Team; in the last one two Teams differ only in their blanks.
StandingsSet ==
    {<<[Team |-> Hawks, Abbr |-> ATL, W |-> w, L |-> l],
       [Team |-> LANets, Abbr |-> LAN, W |-> l, L |-> MaxGames + 1]>> :
        w \in 0..MaxGames, l \in 0..MaxGames}
    \cup {<<[Team |-> Hawks, Abbr |-> ATL, W |-> 0, L |-> 1],
            [Team |-> LANetsWide, Abbr |-> LAN, W |-> 1, L |-> 0],
            [Team |-> LANets, Abbr |-> LAN, W |-> 1, L |-> 0]>>}

(***************************************************************************)
(* The scoring step: the tables of one draft and one standings frame.      *)
(***************************************************************************)
\* calc_tables is about to be called on a draft and a standings frame.
BeforeCalc ==
    /\ pc = "calc"
    /\ draft_df \in Drafts
    /\ standings \in StandingsSet
    /\ player_table = <<>>
    /\ per_team_df = <<>>
    /\ IdleWeek
    /\ IdleHist
    /\ IdleSave
    /\ IdleFetch
    /\ IdleRun
    /\ IdleView

InitCalc == BeforeCalc /\ pandas \in Builds

\* player_table_raw, per_team_table_raw = calc_tables(editable_df, standings_df)
CalcTables ==
    /\ pc = "calc"
    /\ IF CalcRaises(draft_df, standings)
       THEN /\ pc' = "calc_raised"
            /\ UNCHANGED <<player_table, per_team_df>>
       ELSE /\ pc' = "tables"
            /\ player_table' = CalcPlayerTable(draft_df, standings)
            /\ per_team_df' = CalcPerTeam(draft_df, standings)
    /\ UNCHANGED <<draft_df, standings, weekVars, histVars, saveVars, fetchVars, runVars>>
    /\ UNCHANGED <<viewVars, pandas>>

NextCalc == CalcTables

SpecCalc == InitCalc /\ [][NextCalc]_vars

(***************************************************************************)
(* Claims about calc_tables                                                *)
(***************************************************************************)
\* The per-team rows computed from draft entry e.
RowsOf(e) ==
    {k \in 1..Len(per_team_df) :
        per_team_df[k].P_FULL = e.Player /\ per_team_df[k].TMF = e.Team
        /\ per_team_df[k].PT = (IF e.PointType = Wins THEN "W" ELSE "L")}

\* A per-team row scored from W wins and L losses by its point type.
ScoredAs(row, W, L) ==
    /\ row.W = W /\ row.L = L /\ row.GP = W + L
    /\ row.PT = "W" => (row.P = W /\ row.NP = L)
    /\ row.PT = "L" => (row.P = L /\ row.NP = W)
    /\ row.P + row.NP = row.GP

\* C1: every draft entry whose normalized Team is a standings row with W wins
\* and L losses has a per-team row with P = W, NP = L when its PointType is
\* "Wins" and P = L, NP = W otherwise, and GP = W + L = P + NP; every per-team
\* row of a matched team is scored so.
C1_PointsByType ==
    pc = "tables" =>
        \A j \in 1..Len(standings) :
            /\ \A i \in 1..Len(draft_df) :
                normalize_team_name(draft_df[i].Team)
                        = normalize_team_name(standings[j].Team)
                    => \E k \in RowsOf(draft_df[i]) :
                           ScoredAs(per_team_df[k], standings[j].W, standings[j].L)
            /\ \A k \in 1..Len(per_team_df) :
                normalize_team_name(per_team_df[k].TMF)
                        = normalize_team_name(standings[j].Team)
                    => ScoredAs(per_team_df[k], standings[j].W, standings[j].L)

\* A Wins entry and a Losses entry scored on teams whose wins and losses differ.
C1_Witness ==
    /\ pc = "tables"
    /\ \E k \in 1..Len(per_team_df) :
        per_team_df[k].PT = "W" /\ per_team_df[k].P = 1 /\ per_team_df[k].NP = 0
    /\ \E k \in 1..Len(per_team_df) :
        per_team_df[k].PT = "L" /\ per_team_df[k].P > per_team_df[k].W

\* The draft entries whose normalized Team is no key of the standings.
Missed(e) ==
    \A j \in 1..Len(standings) :
        normalize_team_name(e.Team) # normalize_team_name(standings[j].Team)

ZeroRow(row) ==
    /\ row.W = 0 /\ row.L = 0 /\ row.GP = 0 /\ row.P = 0 /\ row.NP = 0
    /\ row.Ppct = 0 /\ row.Wpct = 0

\* The draft entries whose team the standings have.
Hits(df) == SelectRows(df, {i \in 1..Len(df) : ~Missed(df[i])})

\* C2: a draft entry whose normalized Team is no key of the standings (an
\* empty Team included) still has a per-team row, all zero; the miss never
\* raises (calc_tables returns wherever it returns for the draft without the
\* missed entries), no entry is dropped from the per-team table, and its
\* PLYR has a row in the player table.
C2_MissIsZeroRow ==
    (pc \in {"tables", "calc_raised"} /\ ~CalcRaises(Hits(draft_df), standings)) =>
        /\ pc = "tables"
        /\ Len(per_team_df) = Len(draft_df)
        /\ \A i \in 1..Len(draft_df) :
            Missed(draft_df[i]) =>
                /\ \E k \in RowsOf(draft_df[i]) :
                    /\ ZeroRow(per_team_df[k])
                    /\ \E m \in 1..Len(player_table) :
                        player_table[m].PLYR = per_team_df[k].PLYR
        /\ \A k \in 1..Len(per_team_df) :
            Missed([Team |-> per_team_df[k].TMF]) => ZeroRow(per_team_df[k])

\* The per-team rows of one PLYR.
RowsOfPlyr(k) == {i \in 1..Len(per_team_df) : per_team_df[i].PLYR = k}

RECURSIVE SumSet(_, _)
\* The sum of f over the index set S.
SumSet(f, S) ==
    IF S = {} THEN 0
    ELSE LET i == CHOOSE x \in S : TRUE IN f[i] + SumSet(f, S \ {i})

\* C3: for a non-empty draft the player table has exactly one row per distinct
\* PLYR of the per-team table, holding the sums of P, NP and GP over that
\* PLYR's per-team rows; an entry with an empty PLYR is grouped under the
\* first 6 characters of its Player; P + NP = GP in every player row, and GP
\* summed over players equals GP summed over the per-team rows.
C3_PlayerRowsAreSums ==
    (pc = "tables" /\ draft_df # <<>>) =>
        /\ \A i \in 1..Len(per_team_df) :
            Cardinality({m \in 1..Len(player_table) :
                player_table[m].PLYR = per_team_df[i].PLYR}) = 1
        /\ \A m \in 1..Len(player_table) :
            LET g == RowsOfPlyr(player_table[m].PLYR)
            IN  /\ g # {}
                /\ player_table[m].P = SumSet([i \in g |-> per_team_df[i].P], g)
                /\ player_table[m].NP = SumSet([i \in g |-> per_team_df[i].NP], g)
                /\ player_table[m].GP = SumSet([i \in g |-> per_team_df[i].GP], g)
                /\ player_table[m].P + player_table[m].NP = player_table[m].GP
        /\ \A i \in 1..Len(draft_df) :
            (~Truthy(draft_df[i].PLYR) /\ Truthy(draft_df[i].Player)) =>
                \E k \in RowsOf(draft_df[i]) :
                    /\ per_team_df[k].PLYR = Prefix(draft_df[i].Player, 6)
                    /\ \E m \in 1..Len(player_table) :
                        player_table[m].PLYR = Prefix(draft_df[i].Player, 6)
        /\ SumSet([m \in 1..Len(player_table) |-> player_table[m].GP],
                  1..Len(player_table))
             = SumSet([i \in 1..Len(per_team_df) |-> per_team_df[i].GP],
                      1..Len(per_team_df))

\* Two players, one of them grouped under the first 6 characters of a
\* 7-character Player and summing two teams with games.
C3_Witness ==
    /\ pc = "tables"
    /\ Len(player_table) = 2
    /\ \E m \in 1..Len(player_table) :
        /\ player_table[m].PLYR = Prefix(AliceJo, 6)
        /\ Cardinality(RowsOfPlyr(player_table[m].PLYR)) = 2
        /\ \A i \in RowsOfPlyr(player_table[m].PLYR) : per_team_df[i].GP > 0
        /\ player_table[m].P > 0 /\ player_table[m].NP > 0

(***************************************************************************)
(* The History worksheet                                                   *)
(*                                                                         *)
(* The sheet holds text: upsert_history writes cur.astype(str).  Reading   *)
(* it back with get_all_records() numericises every cell: a cell that      *)
(* int() accepts comes back an int, one that float() accepts a float,      *)
(* anything else the text itself.  A cell value is a record [t, s, n, k]:  *)
(* the text s (t = "str"), the integer n (t = "int"), the float            *)
(* n / 10^k with the sign s (t = "float"), nan, an infinity with the sign  *)
(* s, or None.  A float of the model stands for the double nearest to its  *)
(* decimal; integers are TLC's, below 2^31.                                *)
(***************************************************************************)
VNone == [t |-> "none", s |-> <<>>, n |-> 0, k |-> 0]
VStr(s) == [t |-> "str", s |-> s, n |-> 0, k |-> 0]
VInt(n) == [t |-> "int", s |-> <<>>, n |-> n, k |-> 0]
VNan == [t |-> "nan", s |-> <<>>, n |-> 0, k |-> 0]
VInf(sign) == [t |-> "inf", s |-> sign, n |-> 0, k |-> 0]
\* True and False of a JSON answer: ints of Python, 1 and 0.
VBool(b) == [t |-> "bool", s |-> <<>>, n |-> IF b THEN 1 ELSE 0, k |-> 0]

\* The float m / 10^k with the sign sign ("" or "-"), written with as few
\* decimals as it takes.  A decimal below 1e-324 is the float 0.0 with its
\* sign; the subnormal floats between that and 1e-307, whose digits are not
\* those of the decimal, are not values of the model.
RECURSIVE Dec(_, _, _)
Dec(sign, m, k) ==
    IF k > 0 /\ m % 10 = 0 THEN Dec(sign, m \div 10, k - 1)
    ELSE IF k < 0 THEN Dec(sign, 10 * m, k + 1)
    ELSE IF k < 300 THEN [t |-> "float", s |-> sign, n |-> m, k |-> k]
    ELSE CASE k - Len(IntText(m)) >= 324 -> [t |-> "float", s |-> sign, n |-> 0, k |-> 0]
           [] k - Len(IntText(m)) <= 306 -> [t |-> "float", s |-> sign, n |-> m, k |-> k]

\* The float of a number of tenths.
VFloat(tenths) == Dec(<<>>, tenths, 1)

IsDigit(c) == c \in {Digit(n) : n \in 0..9}
DigitVal(c) == CHOOSE n \in 0..9 : Digit(n) = c

\* str.isdigit() on ASCII.
IsDigits(s) == s # <<>> /\ \A i \in 1..Len(s) : IsDigit(s[i])

\* int(s) of a text of digits.
RECURSIVE ParseNat(_)
ParseNat(s) ==
    IF s = <<>> THEN 0
    ELSE 10 * ParseNat(SubSeq(s, 1, Len(s) - 1)) + DigitVal(s[Len(s)])

\* The digits a text starts with, and the text after a prefix.
RECURSIVE LeadingDigits(_)
LeadingDigits(s) ==
    IF s # <<>> /\ IsDigit(Head(s)) THEN <<Head(s)>> \o LeadingDigits(Tail(s)) ELSE <<>>
RestAfter(s, lead) == SubSeq(s, Len(lead) + 1, Len(s))

\* The sign a literal starts with, and the literal without it.
SignOf(s) == IF s # <<>> /\ Head(s) = "-" THEN <<"-">> ELSE <<>>
Unsigned(s) == IF s # <<>> /\ Head(s) \in {"+", "-"} THEN Tail(s) ELSE s
ParseSigned(s) ==
    IF SignOf(s) = <<>> THEN ParseNat(Unsigned(s)) ELSE 0 - ParseNat(Unsigned(s))

\* The whitespace int() and float() skip around a literal: str.isspace()
\* without U+001C to U+001F.
NumBlankSet == {Blanks[i] : i \in (1..Len(Blanks)) \ (6..9)}
IsNumSpace(c) == c \in NumBlankSet

RECURSIVE NumLStrip(_)
NumLStrip(s) == IF s # <<>> /\ IsNumSpace(Head(s)) THEN NumLStrip(Tail(s)) ELSE s

RECURSIVE NumRStrip(_)
NumRStrip(s) ==
    IF s # <<>> /\ IsNumSpace(s[Len(s)]) THEN NumRStrip(SubSeq(s, 1, Len(s) - 1)) ELSE s

NumStrip(s) == NumRStrip(NumLStrip(s))

\* int(s): blanks around, an optional sign, digits.
IsIntText(s) == IsDigits(Unsigned(NumStrip(s)))
ParseInt(s) == ParseSigned(NumStrip(s))

\* float(s) of the literal's parts: the digits ip before the point, the
\* digits fp after it and the rest r2, an exponent or nothing.  The set
\* holding the float, empty for a ValueError.
FloatFrom3(sign, ip, fp, r2) ==
    IF ip = <<>> /\ fp = <<>> THEN {}
    ELSE IF r2 = <<>> THEN {Dec(sign, ParseNat(ip \o fp), Len(fp))}
    ELSE IF Head(r2) = "e" /\ IsDigits(Unsigned(Tail(r2)))
         THEN {Dec(sign, ParseNat(ip \o fp), Len(fp) - ParseSigned(Tail(r2)))}
         ELSE {}

FloatFrom2(sign, ip, r1) ==
    IF r1 # <<>> /\ Head(r1) = "."
    THEN FloatFrom3(sign, ip, LeadingDigits(Tail(r1)),
                    RestAfter(Tail(r1), LeadingDigits(Tail(r1))))
    ELSE FloatFrom3(sign, ip, <<>>, r1)

FloatFrom1(sign, u) ==
    IF u \in {<<"i", "n", "f">>, <<"i", "n", "f", "i", "n", "i", "t", "y">>}
    THEN {VInf(sign)}
    ELSE IF u = <<"n", "a", "n">> THEN {VNan}
    ELSE FloatFrom2(sign, LeadingDigits(u), RestAfter(u, LeadingDigits(u)))

\* float(s): blanks around, an optional sign, then inf, infinity or nan in
\* any case, or digits with an optional point and an optional exponent.
ParseFloat(s) == FloatFrom1(SignOf(NumStrip(s)), Lower(Unsigned(NumStrip(s))))

\* The float when there is one, else the text.
FloatOrText(S, s) == IF S = {} THEN VStr(s) ELSE CHOOSE v \in S : TRUE

\* gspread's numericise: int(value), else float(value), else the text.
numericise(s) ==
    IF IsIntText(s) THEN VInt(ParseInt(s)) ELSE FloatOrText(ParseFloat(s), s)

\* str(n) of an integer.
IntStr(n) == IF n < 0 THEN <<"-">> \o IntText(0 - n) ELSE IntText(n)

RECURSIVE Zeros(_)
Zeros(n) == IF n <= 0 THEN <<>> ELSE <<"0">> \o Zeros(n - 1)

\* The exponent of a float's repr: two digits at least.
ExpText(n) == IF n < 10 THEN <<"0">> \o IntText(n) ELSE IntText(n)

\* repr of the float whose digits are D with k of them after the point:
\* exponent notation below 0.0001, else the decimal with at least one digit
\* after the point.
FloatDigits(D, k) ==
    IF D # <<"0">> /\ Len(D) - 1 - k < 0 - 4
    THEN <<Head(D)>> \o (IF Len(D) > 1 THEN <<".">> \o Tail(D) ELSE <<>>)
             \o <<"e", "-">> \o ExpText(k + 1 - Len(D))
    ELSE IF k = 0 THEN D \o <<".", "0">>
    ELSE IF Len(D) > k
         THEN SubSeq(D, 1, Len(D) - k) \o <<".">> \o SubSeq(D, Len(D) - k + 1, Len(D))
         ELSE <<"0", ".">> \o Zeros(k - Len(D)) \o D

\* str(v), as astype(str) writes a cell.
StrOf(v) ==
    CASE v.t = "str" -> v.s
      [] v.t = "int" -> IntStr(v.n)
      [] v.t = "float" -> v.s \o FloatDigits(IntText(v.n), v.k)
      [] v.t = "nan" -> <<"n", "a", "n">>
      [] v.t = "inf" -> v.s \o <<"i", "n", "f">>
      [] v.t = "none" -> <<"N", "o", "n", "e">>

HistCols == {"DateUTC", "WeekStart", "PLYR", "P", "GP", "NP", "Ppct"}

\* One record of ws.get_all_records(): every cell numericised.
RecordOf(r) ==
    [DateUTC |-> numericise(r.DateUTC), WeekStart |-> numericise(r.WeekStart),
     PLYR |-> numericise(r.PLYR), P |-> numericise(r.P), GP |-> numericise(r.GP),
     NP |-> numericise(r.NP), Ppct |-> numericise(r.Ppct)]

\* ws.get_all_records(): the list of the sheet's records.
Records(tab) == [i \in 1..Len(tab) |-> RecordOf(tab[i])] \o <<>>

\* The dtype pandas gives a column: object when a cell is a text, float64
\* when the cells are numbers with a float among them, int64 when they are
\* all ints.
DtypeOf(cells) ==
    IF \E v \in cells : v.t \in {"str", "none"} THEN "object"
    ELSE IF \E v \in cells : v.t # "int" THEN "float64"
    ELSE "int64"

Dtypes(frame) ==
    [DateUTC |-> DtypeOf({frame[i].DateUTC : i \in 1..Len(frame)}),
     WeekStart |-> DtypeOf({frame[i].WeekStart : i \in 1..Len(frame)}),
     PLYR |-> DtypeOf({frame[i].PLYR : i \in 1..Len(frame)}),
     P |-> DtypeOf({frame[i].P : i \in 1..Len(frame)}),
     GP |-> DtypeOf({frame[i].GP : i \in 1..Len(frame)}),
     NP |-> DtypeOf({frame[i].NP : i \in 1..Len(frame)}),
     Ppct |-> DtypeOf({frame[i].Ppct : i \in 1..Len(frame)})]

\* The dtype of two columns put together.
CommonDtype(a, b) ==
    IF "object" \in {a, b} THEN "object"
    ELSE IF "float64" \in {a, b} THEN "float64"
    ELSE "int64"

\* float(v) of an int; any other value as it is.
AsFloat(v) ==
    IF v.t # "int" THEN v
    ELSE IF v.n < 0 THEN Dec(<<"-">>, 0 - v.n, 0) ELSE Dec(<<>>, v.n, 0)

\* A cell in a column of a dtype: in a float64 column every int is the
\* float of its value.
Cast(v, dtype) == IF dtype = "float64" THEN AsFloat(v) ELSE v

\* The rows with the columns of the dtypes given.
AsDtypes(frame, dtypes) ==
    [i \in 1..Len(frame) |->
        [DateUTC |-> Cast(frame[i].DateUTC, dtypes.DateUTC),
         WeekStart |-> Cast(frame[i].WeekStart, dtypes.WeekStart),
         PLYR |-> Cast(frame[i].PLYR, dtypes.PLYR),
         P |-> Cast(frame[i].P, dtypes.P), GP |-> Cast(frame[i].GP, dtypes.GP),
         NP |-> Cast(frame[i].NP, dtypes.NP),
         Ppct |-> Cast(frame[i].Ppct, dtypes.Ppct)]] \o <<>>

\* pd.DataFrame(rows): every column gets one dtype.
DataFrame(rows) == AsDtypes(rows, Dtypes(rows))

\* read_history: the sheet's records as a frame.
read_history(tab) == DataFrame(Records(tab))

\* cur.astype(str).values.tolist()
AsText(frame) ==
    [i \in 1..Len(frame) |-> [c \in HistCols |-> StrOf(frame[i][c])]]

IsNum(v) == v.t \in {"int", "float", "inf"}

RECURSIVE Pow10(_)
Pow10(k) == IF k <= 0 THEN 1 ELSE 10 * Pow10(k - 1)

\* A finite number times 10^K.
Scaled(v, K) == (IF v.s = <<"-">> THEN 0 - v.n ELSE v.n) * Pow10(K - v.k)

\* < on two numbers.
NumLess(a, b) ==
    IF a.t = "inf" THEN a.s = <<"-">> /\ ~(b.t = "inf" /\ b.s = <<"-">>)
    ELSE IF b.t = "inf" THEN b.s = <<>>
    ELSE Scaled(a, a.k + b.k) < Scaled(b, a.k + b.k)

\* Two cell values that pandas hashes to one key: equal numbers (7 and 7.0),
\* two nan, or the same text.
ValEq(a, b) ==
    IF IsNum(a) /\ IsNum(b) THEN ~NumLess(a, b) /\ ~NumLess(b, a) ELSE a = b

\* The order sort_values gives a column of mixed values: numbers first, in
\* order, then texts, in order, then nan.
ValLess(a, b) ==
    IF a.t = "nan" THEN FALSE
    ELSE IF b.t = "nan" THEN TRUE
    ELSE IF IsNum(a) /\ IsNum(b) THEN NumLess(a, b)
    ELSE IF IsNum(a) THEN TRUE
    ELSE IF IsNum(b) THEN FALSE
    ELSE StrLess(a.s, b.s)

\* key = ["WeekStart", "PLYR"]
SameKey(a, b) == ValEq(a.WeekStart, b.WeekStart) /\ ValEq(a.PLYR, b.PLYR)

\* drop_duplicates(subset=key, keep="last")
DropDuplicates(s) ==
    SelectRows(s, {i \in 1..Len(s) : \A j \in (i + 1)..Len(s) : ~SameKey(s[j], s[i])})

\* Rows compared on the columns cols, from the first on.
RECURSIVE RowLess(_, _, _)
RowLess(a, b, cols) ==
    IF cols = <<>> THEN FALSE
    ELSE IF a[Head(cols)] = b[Head(cols)] THEN RowLess(a, b, Tail(cols))
    ELSE IF ValLess(a[Head(cols)], b[Head(cols)]) THEN TRUE
    ELSE IF ValLess(b[Head(cols)], a[Head(cols)]) THEN FALSE
    ELSE RowLess(a, b, Tail(cols))

\* sort_values(cols), ascending: a stable sort, built by inserting each row
\* after the rows that do not sort behind it.
RECURSIVE SortAsc(_, _)
SortAsc(s, cols) ==
    IF s = <<>> THEN <<>>
    ELSE LET x == s[Len(s)]
             o == SortAsc(SubSeq(s, 1, Len(s) - 1), cols)
             p == Cardinality({j \in 1..Len(o) : ~RowLess(x, o[j], cols)})
         IN  SubSeq(o, 1, p) \o <<x>> \o SubSeq(o, p + 1, Len(o))

\* The decimal of num / den, a quotient that has one.
RECURSIVE ExactDec(_, _, _)
ExactDec(num, den, k) ==
    IF num % den = 0 THEN Dec(<<>>, num \div den, k) ELSE ExactDec(10 * num, den, k + 1)

\* A P% of the player table as a cell value.  An unrounded P% is written
\* only where the float is the exact quotient; the digits str() gives a
\* float that is not take the double's 53 bits, which the model does not hold.
PctCell(v) ==
    CASE ~v.raw -> VFloat(v.n)
      [] v.raw /\ v.n = 0 -> VFloat(0)
      [] v.raw /\ v.n # 0 /\ FloatErr(v.n, v.d) = 0 -> ExactDec(100 * v.n, v.d, 0)

\* new_rows: the player table's PLYR, P, GP, NP, P% with WeekStart and DateUTC.
NewRows(pt, at) ==
    [i \in 1..Len(pt) |->
        [DateUTC |-> VStr(DateTimeText(at)),
         WeekStart |-> VStr(week_start_monday_utc(at)),
         PLYR |-> VStr(pt[i].PLYR), P |-> VInt(pt[i].P), GP |-> VInt(pt[i].GP),
         NP |-> VInt(pt[i].NP), Ppct |-> PctCell(pt[i].Ppct)]]

\* The dtypes of new_rows: the texts are object columns, P, GP and NP
\* int64, P% float64.
NewDtypes ==
    [DateUTC |-> "object", WeekStart |-> "object", PLYR |-> "object",
     P |-> "int64", GP |-> "int64", NP |-> "int64", Ppct |-> "float64"]

\* pd.concat([hist, new_rows], ignore_index=True) with hist the rows kept
\* of a frame of the dtypes given: every column gets the dtype common to
\* its two parts.
Concat(kept, dtypes, new_rows) ==
    AsDtypes(kept \o new_rows,
             [DateUTC |-> CommonDtype(dtypes.DateUTC, NewDtypes.DateUTC),
              WeekStart |-> CommonDtype(dtypes.WeekStart, NewDtypes.WeekStart),
              PLYR |-> CommonDtype(dtypes.PLYR, NewDtypes.PLYR),
              P |-> CommonDtype(dtypes.P, NewDtypes.P),
              GP |-> CommonDtype(dtypes.GP, NewDtypes.GP),
              NP |-> CommonDtype(dtypes.NP, NewDtypes.NP),
              Ppct |-> CommonDtype(dtypes.Ppct, NewDtypes.Ppct)])

\* The frame upsert_history writes back.
UpsertFrame(tab, pt, at) ==
    LET hist == read_history(tab)
    IN  IF hist # <<>>
        THEN DropDuplicates(
                 SortAsc(Concat(DropDuplicates(hist), Dtypes(hist), NewRows(pt, at)),
                         <<"WeekStart", "PLYR", "DateUTC">>))
        ELSE NewRows(pt, at)

\* The History sheet after upsert_history(gc, player_table) at the instant at.
upsert_history(tab, pt, at) ==
    IF pt = <<>> THEN tab ELSE AsText(UpsertFrame(tab, pt, at))

(***************************************************************************)
(* The weekly chart                                                        *)
(***************************************************************************)
\* The chart plots this many weeks.
ChartWeeks == 3

\* pd.to_numeric(errors="coerce") of a cell: a text becomes nan.
ToNumeric(v) == IF v.t \in {"str", "none"} THEN VNan ELSE v

\* hist_df[c] = pd.to_numeric(hist_df[c], errors="coerce") for P, GP, NP, P%.
NumericFrame(frame) ==
    DataFrame([i \in 1..Len(frame) |->
                  [DateUTC |-> frame[i].DateUTC, WeekStart |-> frame[i].WeekStart,
                   PLYR |-> frame[i].PLYR, P |-> ToNumeric(frame[i].P),
                   GP |-> ToNumeric(frame[i].GP), NP |-> ToNumeric(frame[i].NP),
                   Ppct |-> ToNumeric(frame[i].Ppct)]] \o <<>>)

Zero == Dec(<<>>, 0, 0)

\* groupby("PLYR")["P"].shift(1).fillna(0): P of the row before in the
\* same PLYR group, 0.0 for the group's first row, for a row whose PLYR is
\* nan (groupby leaves it out) and after a row whose P is nan.
PrevP(s, i) ==
    LET before == {j \in 1..(i - 1) : s[i].PLYR.t # "nan" /\ ValEq(s[j].PLYR, s[i].PLYR)}
    IN  IF before = {} THEN Zero
        ELSE LET prev == s[CHOOSE j \in before : \A k \in before : k <= j].P
             IN  IF prev.t = "nan" THEN Zero ELSE AsFloat(prev)

RECURSIVE Pow5(_)
Pow5(k) == IF k <= 0 THEN 1 ELSE 5 * Pow5(k - 1)

\* A float that is its decimal exactly: n / 10^k with n a multiple of 5^k,
\* so a number of halves, quarters and so on.
IsExact(v) == v.k <= 9 /\ v.n % Pow5(v.k) = 0

\* -v of a float.
Neg(v) == [v EXCEPT !.s = IF v.s = <<>> THEN <<"-">> ELSE <<>>]

\* The difference of the decimals of two floats.
DecMinus(a, b) ==
    LET K == IF a.k > b.k THEN a.k ELSE b.k
        d == Scaled(a, K) - Scaled(b, K)
    IN  IF d < 0 THEN Dec(<<"-">>, 0 - d, K) ELSE Dec(<<>>, d, K)

\* a - b of two floats that are finite.  With a zero, with equal operands
\* and with operands that are their decimals exactly the float difference is
\* known; any other difference is rounded from the operands' 53 bits
\* (0.3 - 0.1 is 0.19999999999999998), which the model does not hold, and is
\* not defined here.
FloatMinus(a, b) ==
    CASE a.n = 0 /\ b.n = 0 ->
             Dec(IF a.s = <<"-">> /\ b.s = <<>> THEN <<"-">> ELSE <<>>, 0, 0)
      [] a.n # 0 /\ b.n = 0 -> a
      [] a.n = 0 /\ b.n # 0 -> Neg(b)
      [] a.n # 0 /\ b.n # 0 /\ a = b -> Zero
      [] a.n # 0 /\ b.n # 0 /\ a # b /\ IsExact(a) /\ IsExact(b) -> DecMinus(a, b)

\* a - b of two numbers of a float64 column.
Minus(a, b) ==
    IF a.t = "nan" \/ b.t = "nan" THEN VNan
    ELSE IF a.t = "inf" THEN (IF b.t = "inf" /\ b.s = a.s THEN VNan ELSE a)
    ELSE IF b.t = "inf" THEN VInf(IF b.s = <<>> THEN <<"-">> ELSE <<>>)
    ELSE FloatMinus(AsFloat(a), AsFloat(b))

\* .clip(lower=0)
Clip0(v) ==
    IF v.t # "nan" /\ v.s = <<"-">> /\ ~(v.t = "float" /\ v.n = 0) THEN Zero ELSE v

\* hist_df with P, GP, NP and P% made numbers, sorted by PLYR and WeekStart,
\* with PrevP and P_week.
ChartFrame(tab) ==
    LET s == SortAsc(NumericFrame(read_history(tab)), <<"PLYR", "WeekStart">>)
    IN  [i \in 1..Len(s) |->
            [DateUTC |-> s[i].DateUTC, WeekStart |-> s[i].WeekStart,
             PLYR |-> s[i].PLYR, P |-> s[i].P,
             GP |-> s[i].GP, NP |-> s[i].NP, Ppct |-> s[i].Ppct,
             PrevP |-> PrevP(s, i), P_week |-> Clip0(Minus(s[i].P, PrevP(s, i)))]]

\* unique().tolist(): the values in the order of their first appearance.
Unique(vals) ==
    SelectRows(vals, {i \in 1..Len(vals) : \A j \in 1..(i - 1) : ~ValEq(vals[j], vals[i])})

\* x < y as sorted() asks it of two texts or of two numbers: texts by code
\* point, numbers by value, and a nan neither below nor above anything.
PyLess(x, y) ==
    IF x.t = "str" THEN StrLess(x.s, y.s)
    ELSE x.t # "nan" /\ y.t # "nan" /\ NumLess(x, y)

\* sorted() raises the TypeError of < between a text and a number.
SortedRaises(vals) ==
    \E i, j \in 1..Len(vals) : vals[i].t = "str" /\ vals[j].t # "str"

\* count_run of list.sort(): the length of the run the list starts with,
\* strictly descending or else not descending.
RunLen(a) ==
    IF Len(a) < 2 THEN Len(a)
    ELSE IF PyLess(a[2], a[1])
         THEN CHOOSE r \in 2..Len(a) :
                  /\ \A i \in 3..r : PyLess(a[i], a[i - 1])
                  /\ r = Len(a) \/ ~PyLess(a[r + 1], a[r])
         ELSE CHOOSE r \in 2..Len(a) :
                  /\ \A i \in 3..r : ~PyLess(a[i], a[i - 1])
                  /\ r = Len(a) \/ PyLess(a[r + 1], a[r])

Reverse(s) == [i \in 1..Len(s) |-> s[Len(s) + 1 - i]]

\* The run in ascending order: a descending one is reversed.
FirstRun(a) ==
    IF Len(a) >= 2 /\ PyLess(a[2], a[1]) THEN Reverse(SubSeq(a, 1, RunLen(a)))
    ELSE SubSeq(a, 1, RunLen(a))

\* binarysort: where the pivot x goes into the sorted part s, between l and r.
RECURSIVE Bisect(_, _, _, _)
Bisect(s, x, l, r) ==
    IF l >= r THEN l
    ELSE IF PyLess(x, s[l + ((r - l) \div 2) + 1]) THEN Bisect(s, x, l, l + ((r - l) \div 2))
    ELSE Bisect(s, x, l + ((r - l) \div 2) + 1, r)

RECURSIVE InsertAll(_, _)
InsertAll(s, rest) ==
    IF rest = <<>> THEN s
    ELSE InsertAll(SubSeq(s, 1, Bisect(s, Head(rest), 0, Len(s))) \o <<Head(rest)>>
                       \o SubSeq(s, Bisect(s, Head(rest), 0, Len(s)) + 1, Len(s)),
                   Tail(rest))

\* sorted() of a list of fewer than 64 values that are all texts or all
\* numbers: the first run, and every value after it inserted by bisection.
Sorted(a) == InsertAll(FirstRun(a), SubSeq(a, RunLen(a) + 1, Len(a)))

\* hist_df["WeekStart"].unique().tolist()
Weeks(frame) == Unique([i \in 1..Len(frame) |-> frame[i].WeekStart] \o <<>>)

\* sorted(hist_df["WeekStart"].unique().tolist())[:3], where sorted() does
\* not raise.
FirstThree(frame) == Prefix(Sorted(Weeks(frame)), ChartWeeks)

\* hist_df[hist_df["WeekStart"].isin(first_three)]
Hist3(frame) ==
    LET first_three == FirstThree(frame)
    IN  SelectRows(frame, {i \in 1..Len(frame) :
            \E k \in 1..Len(first_three) : ValEq(frame[i].WeekStart, first_three[k])})

\* The st.info of the chart step.
ChartNotice(frame) ==
    IF frame = <<>> THEN "History tab initialized"
    ELSE IF Len(FirstThree(frame)) < ChartWeeks THEN "History has N week(s)"
    ELSE ""

\* The chart step raises: sorted() on WeekStart values that are texts and
\* numbers.
ChartRaises(frame) == SortedRaises(Weeks(frame))

(***************************************************************************)
(* The History step of a run, repeated over the season                     *)
(***************************************************************************)
Seven == <<"7">>

\* upsert_history calls in one behaviour.
MaxCalls == 5

\* The drafts whose player tables are snapshotted: none, one player, and
\* two players, one of them with the PLYR "7".
HistDrafts ==
    {<<>>,
     <<Entry(AliceJo, AL, Hawks, Wins)>>,
     <<Entry(AliceJo, AL, Hawks, Wins), Entry(Bob, Seven, Hawks, Losses)>>}

\* Standings early in the season.
HistStandings == {st \in StandingsSet : st[1].W = 1}

\* The season opens on Tuesday 2025-10-21.
OpeningDay == [day |-> FirstDay + 1, sec |-> 0]

\* The instants a later run may happen at: the last second of the Monday
\* that closes the running W-MON period, and the Tuesday after it.
LaterInstants(at) ==
    LET monday == PeriodStart(at.day) + 6
    IN  {[day |-> monday, sec |-> 86399], [day |-> monday + 1, sec |-> 0]}

\* st.warning of the except branch of the History step.
HistorySkipped == "History logging skipped"

\* ws.update(values): the rows of values from the sheet's first row on; the
\* rows below them stay as they are.
WsUpdate(tab, values) == values \o SubSeq(tab, Len(values) + 1, Len(tab))

\* The snapshot record of one player row taken at an instant.
Snapshot(row, at) ==
    [WeekStart |-> week_start_monday_utc(at), PLYR |-> row.PLYR,
     DateUTC |-> DateTimeText(at), P |-> row.P, GP |-> row.GP, NP |-> row.NP,
     Ppct |-> row.Ppct]

InitHist ==
    /\ pc = "history"
    /\ historyTab = <<>>
    /\ now = OpeningDay
    /\ calls = 0
    /\ hist_df = <<>>
    /\ hist3 = <<>>
    /\ notice = ""
    /\ snap = {}
    /\ upserts = [s \in Sessions |-> NoRequest]
    /\ raised = 0
    /\ IdleCalc
    /\ IdleWeek
    /\ IdleSave
    /\ IdleFetch
    /\ IdleRun
    /\ IdleView
    /\ IdleBuild

\* The snapshots a call of upsert_history takes of the player table pt.
Snapshots(pt, at) == {Snapshot(pt[i], at) : i \in 1..Len(pt)}

\* The last snapshots taken, after new ones.
Retake(old, new) ==
    {r \in old : ~\E n \in new : n.WeekStart = r.WeekStart /\ n.PLYR = r.PLYR} \cup new

\* The drafts and standings of the runs.
HistInputs ==
    {<<d, st>> \in HistDrafts \X HistStandings : d # <<>> \/ st[1].L = 0}

\* The drafts and standings of the runs of a season: no entry, and one
\* player with the PLYR "7" who has 0 points or 1.
SeasonInputs ==
    {<<d, st>> \in {<<>>, <<Entry(Bob, Seven, Hawks, Losses)>>} \X HistStandings :
        d # <<>> \/ st[1].L = 0}

(***************************************************************************)
(* The History step, request by request                                    *)
(***************************************************************************)
\* upsert_history calls of the two sessions in one behaviour.
MaxSharedCalls == 2

\* Requests to the spreadsheet that raise in one behaviour.
MaxRaises == 1

\* The History step of session s begins, of at most `most` in a behaviour:
\* upsert_history returns at once for an empty player table, without a
\* request; otherwise it reads the tab (get_all_records, line 373) and
\* builds the values it is going to write.  The read succeeds (ok) or
\* raises, and then the except branch shows the warning and the step is
\* over.
UpsertRead(s, d, st, at, most, ok) ==
    /\ pc = "history"
    /\ upserts[s].at = "idle"
    /\ calls < most
    /\ ~CalcRaises(d, st)
    /\ ok \/ (CalcPlayerTable(d, st) # <<>> /\ raised < MaxRaises)
    /\ raised' = IF ok THEN raised ELSE raised + 1
    /\ calls' = calls + 1
    /\ now' = at
    /\ player_table' = CalcPlayerTable(d, st)
    /\ upserts' = [upserts EXCEPT ![s] =
            IF ~ok THEN NoRequest
            ELSE IF CalcPlayerTable(d, st) = <<>>
            THEN [at |-> "read", values |-> <<>>, rows |-> {}]
            ELSE [at |-> "clear",
                  values |-> AsText(UpsertFrame(historyTab,
                                                CalcPlayerTable(d, st), at)),
                  rows |-> Snapshots(CalcPlayerTable(d, st), at)]]
    /\ notice' = IF ok THEN notice ELSE HistorySkipped
    /\ UNCHANGED <<historyTab, hist_df, hist3, snap>>
    /\ UNCHANGED <<pc, draft_df, standings, per_team_df, weekVars, saveVars, fetchVars, runVars>>
    /\ UNCHANGED <<viewVars, pandas>>

\* ws.clear() of upsert_history in session s.
UpsertClear(s) ==
    /\ pc = "history"
    /\ upserts[s].at = "clear"
    /\ historyTab' = <<>>
    /\ upserts' = [upserts EXCEPT ![s].at = "update"]
    /\ UNCHANGED <<now, calls, hist_df, hist3, notice, snap, raised>>
    /\ UNCHANGED <<pc, calcVars, weekVars, saveVars, fetchVars, runVars, viewVars, pandas>>

\* ws.update(values) of upsert_history in session s.
UpsertUpdate(s) ==
    /\ pc = "history"
    /\ upserts[s].at = "update"
    /\ historyTab' = WsUpdate(historyTab, upserts[s].values)
    /\ snap' = Retake(snap, upserts[s].rows)
    /\ upserts' = [upserts EXCEPT ![s] = [at |-> "read", values |-> <<>>, rows |-> {}]]
    /\ UNCHANGED <<now, calls, hist_df, hist3, notice, raised>>
    /\ UNCHANGED <<pc, calcVars, weekVars, saveVars, fetchVars, runVars, viewVars, pandas>>

\* hist_df = read_history(gc) (line 545) and the chart's frame in session
\* s; sorted() may raise on the weeks, and then the except branch shows the
\* warning in place of the chart.
ReadHistory(s) ==
    /\ pc = "history"
    /\ upserts[s].at = "read"
    /\ hist_df' = ChartFrame(historyTab)
    /\ IF ChartRaises(hist_df')
       THEN hist3' = hist3 /\ notice' = HistorySkipped
       ELSE hist3' = Hist3(hist_df') /\ notice' = ChartNotice(hist_df')
    /\ upserts' = [upserts EXCEPT ![s] = NoRequest]
    /\ UNCHANGED <<historyTab, now, calls, snap, raised>>
    /\ UNCHANGED <<pc, calcVars, weekVars, saveVars, fetchVars, runVars, viewVars, pandas>>

\* The request session s is about to send raises: the except branch shows
\* the warning and the History step is over.
HistoryRaises(s) ==
    /\ pc = "history"
    /\ upserts[s].at \in {"clear", "update", "read"}
    /\ raised < MaxRaises
    /\ raised' = raised + 1
    /\ notice' = HistorySkipped
    /\ upserts' = [upserts EXCEPT ![s] = NoRequest]
    /\ UNCHANGED <<historyTab, now, calls, hist_df, hist3, snap>>
    /\ UNCHANGED <<pc, calcVars, weekVars, saveVars, fetchVars, runVars, viewVars, pandas>>

\* The History steps of one session over the season, each request of them
\* a step of its own that succeeds or raises.
NextHist ==
    \/ \E in \in SeasonInputs, at \in LaterInstants(now), ok \in BOOLEAN :
          UpsertRead(1, in[1], in[2], at, MaxCalls, ok)
    \/ UpsertClear(1)
    \/ UpsertUpdate(1)
    \/ ReadHistory(1)
    \/ HistoryRaises(1)

SpecHist == InitHist /\ [][NextHist]_vars

NextShared ==
    \E s \in Sessions :
        \/ \E in \in HistInputs, at \in LaterInstants(now), ok \in BOOLEAN :
              UpsertRead(s, in[1], in[2], at, MaxSharedCalls, ok)
        \/ UpsertClear(s)
        \/ UpsertUpdate(s)
        \/ ReadHistory(s)
        \/ HistoryRaises(s)

SpecShared == InitHist /\ [][NextShared]_vars

\* The History row that holds a snapshot.
SnapshotRow(r) ==
    [c \in HistCols |->
        CASE c = "DateUTC" -> r.DateUTC
          [] c = "WeekStart" -> r.WeekStart
          [] c = "PLYR" -> r.PLYR
          [] c = "P" -> IntText(r.P)
          [] c = "GP" -> IntText(r.GP)
          [] c = "NP" -> IntText(r.NP)
          [] c = "Ppct" -> StrOf(PctCell(r.Ppct))]

\* C4: after any sequence of upsert_history calls from an empty History tab,
\* the tab holds exactly one row for every (WeekStart, PLYR) ever
\* snapshotted, and it carries the last snapshot taken of that PLYR in that
\* week.
C4_OneRowPerWeekAndPlyr ==
    (pc = "history" /\ Quiet(upserts)) =>
        /\ Len(historyTab) = Cardinality(snap)
        /\ \A r \in snap : \E i \in 1..Len(historyTab) : historyTab[i] = SnapshotRow(r)


\* The chart rows of the PLYR of row i in weeks before row i's week.
EarlierWeeks(i) ==
    {j \in 1..Len(hist_df) :
        /\ ValEq(hist_df[j].PLYR, hist_df[i].PLYR)
        /\ StrLess(hist_df[j].WeekStart.s, hist_df[i].WeekStart.s)}

\* The chart rows of the PLYR of row i.
SamePlyr(i) == {j \in 1..Len(hist_df) : ValEq(hist_df[j].PLYR, hist_df[i].PLYR)}

\* The chart row of the PLYR of row i in the week before row i's week: the
\* last row of the latest of the earlier weeks.
PrecedingWeek(i) ==
    CHOOSE j \in EarlierWeeks(i) :
        \A k \in EarlierWeeks(i) :
            \/ StrLess(hist_df[k].WeekStart.s, hist_df[j].WeekStart.s)
            \/ hist_df[k].WeekStart = hist_df[j].WeekStart /\ k <= j

\* Row i is the last chart row of its PLYR: of the PLYR's latest week, and
\* the last row of that week.
LatestOfPlyr(i) ==
    \A k \in SamePlyr(i) :
        \/ StrLess(hist_df[k].WeekStart.s, hist_df[i].WeekStart.s)
        \/ hist_df[k].WeekStart = hist_df[i].WeekStart /\ k <= i

\* The P of the PLYR of row i never decreases down the chart's rows, which
\* are in the order of the weeks, and starts at 0 or more.
NeverDecreases(i) ==
    \A j, k \in SamePlyr(i) :
        /\ hist_df[j].P.n >= 0
        /\ j < k => hist_df[j].P.n <= hist_df[k].P.n

\* C6: the chart's per-week points of a PLYR in week w are P(w) minus P of
\* the PLYR's immediately preceding History week, P(w) itself in the PLYR's
\* first recorded week, and never negative (a decrease shows as 0); when the
\* PLYR's P never decreases over its weeks, its per-week points sum to its
\* latest P.
C6_WeeklyPointsAreDeltas ==
    pc = "history" =>
        \A i \in 1..Len(hist_df) :
            LET row == hist_df[i]
                mine == SamePlyr(i)
            IN  /\ row.P_week.t = "float" /\ row.P_week.s = <<>>
                /\ EarlierWeeks(i) = {} => row.P_week = AsFloat(row.P)
                /\ EarlierWeeks(i) # {} =>
                    row.P_week = AsFloat(VInt(
                        IF row.P.n >= hist_df[PrecedingWeek(i)].P.n
                        THEN row.P.n - hist_df[PrecedingWeek(i)].P.n ELSE 0))
                /\ (NeverDecreases(i) /\ LatestOfPlyr(i))
                   => SumSet([j \in mine |-> hist_df[j].P_week.n], mine) = row.P.n

\* The distinct WeekStart texts of the History sheet.
TabWeeks == {historyTab[i].WeekStart : i \in 1..Len(historyTab)}

\* The WeekStart texts with fewer than three earlier ones on the sheet.
FirstThreeWeeks ==
    {w \in TabWeeks : Cardinality({v \in TabWeeks : StrLess(v, w)}) < 3}

\* The History step of the last run is over and has drawn the chart.
ChartDrawn == Quiet(upserts) /\ calls > 0 /\ notice # HistorySkipped

\* The chart plots exactly the History rows of the first three weeks, all
\* rows and the notice with one or two weeks.
C7_PlottedNow ==
    (pc = "history" /\ ChartDrawn) =>
        /\ Len(hist3) = Cardinality({i \in 1..Len(historyTab) :
                            historyTab[i].WeekStart \in FirstThreeWeeks})
        /\ \A i \in 1..Len(historyTab) :
            historyTab[i].WeekStart \in FirstThreeWeeks
                => \E k \in 1..Len(hist3) :
                    /\ hist3[k].WeekStart.s = historyTab[i].WeekStart
                    /\ hist3[k].DateUTC.s = historyTab[i].DateUTC
                    /\ StrOf(hist3[k].PLYR) = StrOf(numericise(historyTab[i].PLYR))
                    /\ StrOf(hist3[k].P) = historyTab[i].P
        /\ Cardinality(TabWeeks) \in {1, 2}
            => (Len(hist3) = Len(historyTab) /\ notice = "History has N week(s)")
        /\ Cardinality(TabWeeks) >= 3 => notice = ""

\* The weeks of the rows plotted.
PlottedWeeks == {hist3[k].WeekStart.s : k \in 1..Len(hist3)}

\* The chart drawn after a snapshot taken in a week after the three weeks
\* plotted so far shows the rows that were plotted before.
C7_LaterWeekKeepsPlot ==
    (/\ pc = "history"
     /\ upserts[1].at = "read" /\ upserts'[1].at = "idle"
     /\ player_table # <<>>
     /\ notice' # HistorySkipped
     /\ Cardinality(PlottedWeeks) >= 3
     /\ \A w \in PlottedWeeks : StrLess(w, week_start_monday_utc(now)))
        => hist3' = hist3

\* C7: the chart plots exactly the History rows whose WeekStart is one of
\* the three smallest WeekStart values present; once three weeks exist a
\* snapshot of a later week never changes the plotted rows; with fewer than
\* three weeks every row is plotted and the "History has N week(s)" notice
\* is shown.
C7_FirstThreeWeeksPlotted == [](C7_PlottedNow) /\ [][C7_LaterWeekKeepsPlot]_vars


(***************************************************************************)
(* The Draft worksheet and the Save Draft handler                          *)
(***************************************************************************)
\* A player may hold this many teams.
MaxTeamsPerPlayer == 6

DraftCols == {"Player", "PLYR", "Team", "PointType", "TeamAbbr"}

\* fillna(""): None becomes the empty text.
FillNa(s) == IF s = None THEN <<>> ELSE s

\* df_clean: cells filled, Team normalized, rows with an empty Team dropped.
DfClean(df) ==
    LET filled == [i \in 1..Len(df) |->
                      [c \in DraftCols |->
                          IF c = "Team" THEN normalize_team_name(FillNa(df[i][c]))
                          ELSE FillNa(df[i][c])]]
    IN  SelectRows(filled, {i \in 1..Len(filled) : filled[i].Team # <<>>})

\* too_long = df_clean[df_clean["PLYR"].str.len() > 6]
TooLong(clean) == {i \in 1..Len(clean) : Len(clean[i].PLYR) > PlyrLen}

\* offenders = [p for p, n in counts.items() if n > 6]
Offenders(clean) ==
    {clean[i].Player : i \in {k \in 1..Len(clean) :
        Cardinality({j \in 1..Len(clean) : clean[j].Player = clean[k].Player})
            > MaxTeamsPerPlayer}}

\* dups = df_clean.duplicated(subset=["Team"], keep=False)
Dups(clean) ==
    {i \in 1..Len(clean) : \E j \in 1..Len(clean) : j # i /\ clean[j].Team = clean[i].Team}

\* What the handler does with the edited frame: the first failing check, or
\* the save.
SaveOutcome(df) ==
    LET clean == DfClean(df)
    IN  IF TooLong(clean) # {} THEN "error: PLYR exceeds 6 chars"
        ELSE IF Offenders(clean) # {} THEN "error: more than 6 teams"
        ELSE IF Dups(clean) # {} THEN "error: team more than once"
        ELSE "saved"

\* A value sent to the sheet: a number is held by the sheet and read back
\* by get_all_records as that number, and the tab keeps the text of it.
SheetCell(x) == IF IsNumberCell(x) THEN StrOf(x[2]) ELSE x

\* write_draft: the rows of values below the header.
write_draft(entries) ==
    [i \in 1..Len(entries) |->
        [Player |-> entries[i].Player,
         PLYR |-> Prefix(IF Truthy(entries[i].PLYR) THEN entries[i].PLYR ELSE <<>>, PlyrLen),
         Team |-> normalize_team_name(entries[i].Team),
         PointType |-> entries[i].PointType,
         TeamAbbr |-> SheetCell(entries[i].TeamAbbr)]]

\* Most rows one player has in an edited frame.
MaxSaveRows == 7

TeamNo(i) == <<"H", Digit(i)>>
TeamNoTyped(i) == <<" ", "H", Digit(i), " ">>
Bobby77 == <<"B", "o", "b", "b", "o", "7", "7">>

\* Rows a user adds to the frame: none; a PLYR of 7 characters on a new
\* team, and on a row without a team; a team typed a second time with stray
\* blanks; a second player's row; a blank editor row.
ExtraRows ==
    {<<>>,
     <<Entry(AliceJo, Bobby77, Hawks, Wins)>>,
     <<Entry(AliceJo, Bobby77, <<" ">>, Wins)>>,
     <<Entry(AliceJo, AL, TeamNoTyped(1), Losses)>>,
     <<Entry(AliceJo, <<>>, LANetsTyped, Losses)>>,
     <<[Player |-> None, PLYR |-> None, Team |-> None, PointType |-> None,
        TeamAbbr |-> None]>>}

\* k teams of one player, from team number from on.
TeamsOfBob(from, k) == [i \in 1..k |-> Entry(Bob, AL, TeamNo(from + i - 1), Wins)]

\* The frames the data editor returns: up to MaxSaveRows teams of one
\* player; his teams from the second on; one team or none, and an added row.
EditedFrames ==
    {TeamsOfBob(1, k) : k \in 0..MaxSaveRows}
    \cup {TeamsOfBob(2, k) : k \in 1..2}
    \cup {TeamsOfBob(1, k) \o extra : k \in 0..1, extra \in ExtraRows}

InitSave ==
    /\ pc = "save"
    /\ draftTab = <<>>
    /\ saveResult = ""
    /\ saves = [s \in Sessions |-> NoRequest]
    /\ IdleCalc
    /\ IdleWeek
    /\ IdleHist
    /\ IdleFetch
    /\ IdleRun
    /\ IdleView
    /\ IdleBuild

\* The messages of the three checks.
SaveErrors ==
    {"error: PLYR exceeds 6 chars", "error: more than 6 teams", "error: team more than once"}

\* "Save Draft to Google Sheets" pressed in session s on the edited frame e:
\* the checks, st.stop() at the first that fails; after them write_draft
\* builds the values and opens the worksheet.
SaveDraft(s, e) ==
    /\ pc = "save"
    /\ saves[s].at = "idle"
    /\ draft_df' = e
    /\ IF SaveOutcome(e) = "saved"
       THEN /\ saveResult' = "checked"
            /\ saves' = [saves EXCEPT ![s] =
                    [at |-> "clear", values |-> write_draft(DfClean(e)), rows |-> {}]]
       ELSE /\ saveResult' = SaveOutcome(e)
            /\ UNCHANGED saves
    /\ UNCHANGED <<pc, draftTab, standings, player_table, per_team_df, weekVars, histVars,
                   fetchVars, runVars>>
    /\ UNCHANGED <<viewVars, pandas>>

\* ws.clear() of write_draft in session s.
DraftClear(s) ==
    /\ pc = "save"
    /\ saves[s].at = "clear"
    /\ draftTab' = <<>>
    /\ saves' = [saves EXCEPT ![s].at = "update"]
    /\ saveResult' = "cleared"
    /\ UNCHANGED <<pc, calcVars, weekVars, histVars, fetchVars, runVars, viewVars, pandas>>

\* ws.update(values) of write_draft in session s, and the success message.
DraftUpdate(s) ==
    /\ pc = "save"
    /\ saves[s].at = "update"
    /\ draftTab' = WsUpdate(draftTab, saves[s].values)
    /\ saves' = [saves EXCEPT ![s] = NoRequest]
    /\ saveResult' = "saved"
    /\ UNCHANGED <<pc, calcVars, weekVars, histVars, fetchVars, runVars, viewVars, pandas>>

\* The request session s is about to send raises: no except catches it,
\* the run ends with the exception on the page.
DraftRaises(s) ==
    /\ pc = "save"
    /\ saves[s].at \in {"clear", "update"}
    /\ saves' = [saves EXCEPT ![s] = NoRequest]
    /\ saveResult' = "exception"
    /\ UNCHANGED <<pc, draftTab, calcVars, weekVars, histVars, fetchVars, runVars, viewVars,
                   pandas>>

NextSave ==
    \E s \in Sessions :
        \/ \E e \in EditedFrames : SaveDraft(s, e)
        \/ DraftClear(s)
        \/ DraftUpdate(s)
        \/ DraftRaises(s)

SpecSave == InitSave /\ [][NextSave]_vars

\* The three constraints on a frame, and no empty Team.
NoLongPlyr(rows) == \A i \in 1..Len(rows) : Len(rows[i].PLYR) <= 6
NoCrowdedPlayer(rows) ==
    \A i \in 1..Len(rows) :
        Cardinality({j \in 1..Len(rows) : rows[j].Player = rows[i].Player}) <= 6
NoTeamTwice(rows) ==
    \A i, j \in 1..Len(rows) : rows[i].Team = rows[j].Team => i = j
NoEmptyTeam(rows) == \A i \in 1..Len(rows) : rows[i].Team # <<>> /\ rows[i].Team # None

ValidDraft(rows) ==
    NoLongPlyr(rows) /\ NoCrowdedPlayer(rows) /\ NoTeamTwice(rows) /\ NoEmptyTeam(rows)

\* The edited frame without the rows whose Team is empty, Team normalized.
WithTeam(df) ==
    LET idx == {i \in 1..Len(df) : normalize_team_name(df[i].Team) # <<>>}
        rows == [i \in 1..Len(df) |->
                    [Player |-> FillNa(df[i].Player), PLYR |-> FillNa(df[i].PLYR),
                     Team |-> normalize_team_name(df[i].Team)]]
    IN  [k \in 1..Cardinality(idx) |->
            rows[CHOOSE i \in idx : Cardinality({j \in idx : j < i}) = k - 1]]

\* A press of Save Draft starts a write only when the frame passes the three
\* checks, and then of the frame's rows with a Team; otherwise it stops with
\* an error; the press itself leaves the tab as it was, and the tab changes
\* only through the requests of a write that was started.
C8_SaveStep ==
    LET kept == WithTeam(draft_df')
        ok == NoLongPlyr(kept) /\ NoCrowdedPlayer(kept) /\ NoTeamTwice(kept)
    IN  /\ saveResult' \in SaveErrors \cup {"checked"} =>
              /\ draftTab' = draftTab
              /\ ok <=> saveResult' = "checked"
              /\ ~ok => saves' = saves
              /\ ok => \E s \in Sessions :
                        /\ saves[s].at = "idle"
                        /\ saves'[s].at = "clear"
                        /\ Len(saves'[s].values) = Len(kept)
                        /\ \A i \in 1..Len(kept) :
                              /\ saves'[s].values[i].Player = kept[i].Player
                              /\ saves'[s].values[i].PLYR = kept[i].PLYR
                              /\ saves'[s].values[i].Team = kept[i].Team
        /\ draftTab' # draftTab => \E s \in Sessions : saves[s].at \in {"clear", "update"}

\* C8: Save Draft writes the Draft tab only when, after dropping the rows
\* with an empty Team, no PLYR is longer than 6 characters, no Player has
\* more than 6 rows and no Team is in more than one row; a failed check stops
\* the run and leaves the tab unchanged; so the tab always satisfies the
\* three constraints and holds no row with an empty Team.
C8_SaveKeepsDraftValid == [](pc = "save" => ValidDraft(draftTab)) /\ [][C8_SaveStep]_vars

(***************************************************************************)
(* fetch_nba_standings                                                     *)
(***************************************************************************)
\* What follows the digits a text starts with, and the blanks after them.
AfterDigits(s) == LStrip(SubSeq(s, Len(LeadingDigits(s)) + 1, Len(s)))

\* What follows a leading "-" and the blanks after it; nothing without one.
AfterDash(s) == IF s # <<>> /\ Head(s) = "-" THEN LStrip(Tail(s)) ELSE <<>>

\* The two captured groups as numbers: the set holding the pair, empty when
\* a group did not match.
Groups(w, l) == IF w # <<>> /\ l # <<>> THEN {<<ParseNat(w), ParseNat(l)>>} ELSE {}

\* re.match(r"^\s*(\d+)\s*-\s*(\d+)", summary): the set holding the pair of
\* numbers, empty when the text does not match.
SummaryMatch(summary) ==
    Groups(LeadingDigits(LStrip(summary)),
           LeadingDigits(AfterDash(AfterDigits(LStrip(summary)))))

\* A stat of an entry: its key (s.get("id") or s.get("name")), its value and
\* its displayValue, as cell values.
Stat(key, value, display) == [key |-> key, value |-> value, displayValue |-> display]

\* isinstance(v, (int, float)): a bool is an int, nan and the infinities are
\* floats.
IsNumber(v) == v.t \in {"bool", "int", "float", "nan", "inf"}

\* str.isdigit(): true of the superscript digits too, which int() rejects.
SuperDigits == {"²", "³", "¹"}
StrIsDigit(s) == s # <<>> /\ \A i \in 1..Len(s) : IsDigit(s[i]) \/ s[i] \in SuperDigits

\* What num(k) gives: the set holding the number, empty for None, or the
\* ValueError of int().
Returned(S) == [raised |-> FALSE, val |-> S]
NumRaised == [raised |-> TRUE, val |-> {}]

\* num(k) of the stat found.  The number is returned as it is, nan and the
\* infinities included; a displayValue of digits goes through int().
NumOfStat(st) ==
    IF st.value.t = "none"
    THEN IF IsNumber(st.displayValue) THEN Returned({st.displayValue})
         ELSE IF st.displayValue.t = "str" /\ StrIsDigit(st.displayValue.s)
              THEN IF IsDigits(st.displayValue.s)
                   THEN Returned({VInt(ParseNat(st.displayValue.s))})
                   ELSE NumRaised
              ELSE Returned({})
    ELSE IF IsNumber(st.value) THEN Returned({st.value}) ELSE Returned({})

NumAt(stats, idx) ==
    IF idx = {} THEN Returned({}) ELSE NumOfStat(stats[CHOOSE i \in idx : TRUE])

\* num(k): stats is the entry's list of stats; the dict built from it keeps
\* the last stat of a key, and a stat without a key is left out.
Num(stats, k) ==
    NumAt(stats, {i \in 1..Len(stats) :
                    stats[i].key = k /\ \A j \in (i + 1)..Len(stats) : stats[j].key # k})

\* k in name
Contains(s, sub) ==
    \E i \in 0..(Len(s) - Len(sub)) : SubSeq(s, i + 1, i + Len(sub)) = sub

\* any(k in name for k in ["overall", "total", "regular"])
IsOverall(name) ==
    \E kw \in {<<"o", "v", "e", "r", "a", "l", "l">>, <<"t", "o", "t", "a", "l">>,
               <<"r", "e", "g", "u", "l", "a", "r">>} : Contains(Lower(name), kw)

\* A record of an entry: name is rec.get("name") or rec.get("type") or "",
\* summary is rec.get("summary") or rec.get("displayValue") or "".
Rec(name, summary) == [name |-> name, summary |-> summary]

\* The loop over records_list: the groups of the first overall record whose
\* summary matches, empty when there is none.
RECURSIVE RecordMatch(_)
RecordMatch(records) ==
    IF records = <<>> THEN {}
    ELSE IF IsOverall(Head(records).name) /\ SummaryMatch(Head(records).summary) # {}
         THEN SummaryMatch(Head(records).summary)
         ELSE RecordMatch(Tail(records))

\* isinstance(W, int)
IsInt(S) == \E x \in S : x.t \in {"int", "bool"}

\* int() of a number: a float is cut towards zero.
IntOf(x) ==
    IF x.t = "float"
    THEN IF x.s = <<"-">> THEN 0 - (x.n \div Pow10(x.k)) ELSE x.n \div Pow10(x.k)
    ELSE x.n

\* int(W) if W is a number, else 0.
IntOr0(S) == IF S = {} THEN 0 ELSE IntOf(CHOOSE x \in S : TRUE)

\* int(W) raises on nan (ValueError) and on an infinity (OverflowError).
IntRaises(S) == \E x \in S : x.t \in {"nan", "inf"}

\* A float as sign and fraction in lowest terms, nan, or an infinity.
Float(sign, n, d) ==
    [t |-> "float", s |-> sign, n |-> Frac(n, d)[1], d |-> Frac(n, d)[2]]

\* W / (W + L) if (W + L) > 0 else 0.0
Ratio(W, L) ==
    IF W + L > 0
    THEN IF W < 0 THEN Float(<<"-">>, 0 - W, W + L) ELSE Float(<<>>, W, W + L)
    ELSE Float(<<>>, 0, 1)

\* float(WPCT) of a number: its sign kept, nan and the infinities as they
\* are.
FloatOf(x) ==
    IF x.t \in {"nan", "inf"} THEN [t |-> x.t, s |-> x.s, n |-> 0, d |-> 1]
    ELSE IF x.t = "float" THEN Float(x.s, x.n, Pow10(x.k))
    ELSE IF x.n < 0 THEN Float(<<"-">>, 0 - x.n, 1) ELSE Float(<<>>, x.n, 1)

PctOf(S) == FloatOf(CHOOSE x \in S : TRUE)

\* WPCT == 0: true of 0, 0.0, -0.0 and False, false of nan.
IsZero(S) == \E x \in S : x.t \in {"bool", "int", "float"} /\ x.n = 0

\* The last lines of extract_w_l_pct_from_entry: <<W, L, WinPct>>.  The stat
\* is kept unless it is missing or 0; it is recomputed from W and L when both
\* are ints with a game played.
WithPct(W, L, P) ==
    <<IntOr0(W), IntOr0(L),
      IF (P = {} \/ IsZero(P)) /\ IsInt(W) /\ IsInt(L) /\ IntOr0(W) + IntOr0(L) > 0
      THEN Ratio(IntOr0(W), IntOr0(L))
      ELSE IF P # {} THEN PctOf(P)
      ELSE Ratio(IntOr0(W), IntOr0(L))>>

\* What extract_w_l_pct_from_entry gives: the three numbers, or the exception
\* of an int() that failed.
EntryRaised == [raised |-> TRUE, W |-> 0, L |-> 0, WinPct |-> Float(<<>>, 0, 1)]
Extracted(wl) == [raised |-> FALSE, W |-> wl[1], L |-> wl[2], WinPct |-> wl[3]]

\* Lines 172 to 178 on the W and L that are left after the records.
LastLines(W, L, P) ==
    IF IntRaises(W) \/ IntRaises(L) THEN EntryRaised ELSE Extracted(WithPct(W, L, P))

\* The overall record is consulted when a stat is missing; a record that
\* matches gives both numbers.
FromRecord(m, W0, L0, P) ==
    IF m # {}
    THEN LastLines({VInt((CHOOSE x \in m : TRUE)[1])}, {VInt((CHOOSE x \in m : TRUE)[2])}, P)
    ELSE LastLines(W0, L0, P)

FromStats(e, W0, L0, P) ==
    FromRecord(IF W0 = {} \/ L0 = {} THEN RecordMatch(e.records) ELSE {}, W0, L0, P)

\* WPCT = num("winPercent"), and num("winPercentV2") when that is None.
WinPercent(stats) ==
    IF Num(stats, "winPercent").raised \/ Num(stats, "winPercent").val # {}
    THEN Num(stats, "winPercent")
    ELSE Num(stats, "winPercentV2")

extract_w_l_pct_from_entry(e) ==
    IF \/ Num(e.stats, "wins").raised
       \/ Num(e.stats, "losses").raised
       \/ WinPercent(e.stats).raised
    THEN EntryRaised
    ELSE FromStats(e, Num(e.stats, "wins").val, Num(e.stats, "losses").val,
                   WinPercent(e.stats).val)

\* The row appended for a named entry.
RowOf(team, wl) ==
    [Team |-> team.name,
     Abbr |-> IF Truthy(team.abbr) THEN team.abbr ELSE Upper(Prefix(team.name, 3)),
     W |-> wl.W, L |-> wl.L, WinPct |-> wl.WinPct]

StandingRow(e) == RowOf(e.team, extract_w_l_pct_from_entry(e))

\* The entries of a section that have a name.
Named(sec) == {i \in 1..Len(sec.entries) : Truthy(sec.entries[i].team.name)}

\* The rows of a section's entries: one per entry that has a name.
SectionRows(sec) ==
    [k \in 1..Cardinality(Named(sec)) |->
        StandingRow(sec.entries[CHOOSE i \in Named(sec) :
                                    Cardinality({j \in Named(sec) : j < i}) = k - 1])]

\* Walking a section raises when it, or one of its entries, is not the JSON
\* object the code takes it for, and when the numbers of an entry, named or
\* not, cannot be extracted.
SectionRaises(sec) ==
    \/ sec.shape # "object"
    \/ \E i \in 1..Len(sec.entries) :
          \/ sec.entries[i].shape # "object"
          \/ extract_w_l_pct_from_entry(sec.entries[i]).raised

\* The sections in the order the loop body reads them, each only while rows
\* is empty: whether one raised, and the rows.
RECURSIVE WalkSections(_)
WalkSections(secs) ==
    IF secs = <<>> THEN [raised |-> FALSE, rows |-> <<>>]
    ELSE IF ~Head(secs).present THEN WalkSections(Tail(secs))
    ELSE IF SectionRaises(Head(secs)) THEN [raised |-> TRUE, rows |-> <<>>]
    ELSE IF Named(Head(secs)) # {} THEN [raised |-> FALSE, rows |-> SectionRows(Head(secs))]
    ELSE WalkSections(Tail(secs))

\* One pass of the loop body up to "if rows": whether it raised, and rows.
UrlOutcome(resp) ==
    IF resp.status # "ok" \/ resp.data.shape = "null" THEN [raised |-> TRUE, rows |-> <<>>]
    ELSE IF resp.data.shape # "object" THEN [raised |-> FALSE, rows |-> <<>>]
    ELSE WalkSections(<<resp.data.content, resp.data.children, resp.data.standings>>)

\* Texts in ascending order.
RECURSIVE SortedTexts(_)
SortedTexts(S) ==
    IF S = {} THEN <<>>
    ELSE LET least == CHOOSE x \in S : \A y \in S : y = x \/ StrLess(x, y)
         IN  <<least>> \o SortedTexts(S \ {least})

\* sort_values(["Team", "GP"], ascending=[True, False]), drop_duplicates(
\* "Team", keep="first"), sort_values("Team"): per team the row with the
\* most games, the earlier one on a tie, in the order of the names.
BuildTable(rows) ==
    LET teams == SortedTexts({rows[i].Team : i \in 1..Len(rows)})
        best(team) ==
            CHOOSE i \in 1..Len(rows) :
                /\ rows[i].Team = team
                /\ \A j \in 1..Len(rows) :
                      rows[j].Team = team =>
                          \/ rows[j].W + rows[j].L < rows[i].W + rows[i].L
                          \/ (rows[j].W + rows[j].L = rows[i].W + rows[i].L /\ i <= j)
    IN  [k \in 1..Len(teams) |-> rows[best(teams[k])]]

\* A loop body that returns whatever rows it has.
FetchReturns_Always(rows) == TRUE

\* if rows:
FetchReturns(rows) == rows # <<>>

Urls == <<"https://site.web.api.espn.com/apis/v2/sports/basketball/nba/standings",
          "https://cdn.espn.com/core/nba/standings?xhr=1">>

CouldNotParse == "Could not parse NBA standings from ESPN."

\* Entries of a standings answer.
JsonEntry(name, abbr, stats, records) ==
    [shape |-> "object", team |-> [name |-> name, abbr |-> abbr],
     stats |-> stats, records |-> records]

Overall == <<"O", "v", "e", "r", "a", "l", "l">>

\* Hawks 1-0 from the stats: the losses from a displayValue, the winPercent
\* given.
HawksEntry ==
    JsonEntry(Hawks, ATL,
              <<Stat("wins", VInt(1), VNone), Stat("losses", VNone, VStr(<<"0">>)),
                Stat("winPercent", VFloat(10), VNone)>>, <<>>)
\* Hawks again, without a losses stat and with a winPercent of 0: 1-1 from
\* the overall record (a U+001C before its dash), the percentage from the
\* two numbers.
HawksRecord ==
    JsonEntry(Hawks, None,
              <<Stat("wins", VInt(1), VNone), Stat("winPercent", VInt(0), VNone)>>,
              <<Rec(<<"H", "o", "m", "e">>, <<"1", "-", "0">>),
                Rec(Overall, <<"1", Blanks[6], "-", " ", "1">>)>>)
\* A team with neither stats nor a record that parses.
NetsEntry == JsonEntry(LANets, None, <<>>, <<Rec(Overall, <<"-">>)>>)
\* An entry whose team has no name.
Unnamed ==
    JsonEntry(None, ATL, <<Stat("wins", VInt(1), VNone), Stat("losses", VInt(1), VNone)>>,
              <<>>)
\* An entry that is not a JSON object.
NotAnEntry == [shape |-> "other", team |-> [name |-> None, abbr |-> None],
               stats |-> <<>>, records |-> <<>>]
\* Hawks with wins that are NaN: int(W) raises.
NanEntry ==
    JsonEntry(Hawks, ATL, <<Stat("wins", VNan, VNone), Stat("losses", VInt(1), VNone)>>, <<>>)
\* An entry without a name whose losses are -Infinity: int(L) raises.
InfUnnamed ==
    JsonEntry(None, None,
              <<Stat("wins", VInt(1), VNone), Stat("losses", VInf(<<"-">>), VNone)>>, <<>>)
\* Wins given as the displayValue of a superscript two: isdigit() is true
\* of it and int() raises.
SuperEntry ==
    JsonEntry(Jazz, None,
              <<Stat("wins", VNone, VStr(<<"²">>)), Stat("losses", VInt(0), VNone)>>, <<>>)
\* Wins that are NaN and no losses: 2-1 from the overall record, so int()
\* never sees the NaN; the winPercent is NaN and stays.
NanRescued ==
    JsonEntry(Jazz, None, <<Stat("wins", VNan, VNone), Stat("winPercent", VNan, VNone)>>,
              <<Rec(Overall, <<"2", "-", "1">>)>>)
\* Wins of True and losses of -1.5: 1 and -1, no game played, and a
\* winPercent of -0.5 that is kept with its sign.
OddEntry ==
    JsonEntry(LANets, LAN,
              <<Stat("wins", VBool(TRUE), VNone), Stat("losses", Dec(<<"-">>, 15, 1), VNone),
                Stat("winPercent", Dec(<<"-">>, 5, 1), VNone)>>, <<>>)

\* The entries above that the loop body cannot process.
BadEntries == {NotAnEntry, NanEntry, InfUnnamed, SuperEntry}

Absent == [present |-> FALSE, shape |-> "object", entries |-> <<>>]
Section(entries) == [present |-> TRUE, shape |-> "object", entries |-> entries]
NotASection == [present |-> TRUE, shape |-> "other", entries |-> <<>>]

\* data["content"]["standings"], data["children"], data["standings"]
ContentSections ==
    {Absent, NotASection, Section(<<>>), Section(<<Unnamed>>), Section(<<HawksEntry>>),
     Section(<<NetsEntry, HawksEntry, HawksRecord>>), Section(<<HawksEntry, NotAnEntry>>),
     Section(<<HawksEntry, NanEntry>>)}
ChildrenSections ==
    {Absent, NotASection, Section(<<Unnamed>>), Section(<<HawksRecord, NetsEntry>>),
     Section(<<InfUnnamed>>)}
StandingsSections ==
    {Absent, Section(<<OddEntry, NanRescued>>), Section(<<NetsEntry, NotAnEntry>>),
     Section(<<SuperEntry>>)}

\* What a URL answers: a failed request, a body that is not JSON, JSON that
\* is null or an array, or a JSON object with the three sections.
Responses ==
    {[status |-> s, data |-> [shape |-> "null", content |-> Absent,
                              children |-> Absent, standings |-> Absent]] :
        s \in {"http_error", "timeout", "bad_json"}}
    \cup {[status |-> "ok", data |-> [shape |-> sh, content |-> Absent,
                                      children |-> Absent, standings |-> Absent]] :
        sh \in {"null", "array"}}
    \cup {[status |-> "ok", data |-> [shape |-> "object", content |-> c,
                                      children |-> ch, standings |-> st]] :
        c \in ContentSections, ch \in ChildrenSections, st \in StandingsSections}

InitFetch ==
    /\ pc = "fetch"
    /\ \E first, second \in Responses : responses = <<first, second>>
    /\ requested = <<>>
    /\ fetchIdx = 1
    /\ fetchError = ""
    /\ IdleCalc
    /\ IdleWeek
    /\ IdleHist
    /\ IdleSave
    /\ IdleRun
    /\ IdleView
    /\ IdleBuild

\* One pass of "for url in urls": the request, the rows, and either the
\* return of the table or the next url.
TryUrl ==
    /\ pc = "fetch"
    /\ fetchIdx <= Len(Urls)
    /\ requested' = Append(requested, fetchIdx)
    /\ LET out == UrlOutcome(responses[fetchIdx])
       IN  IF ~out.raised /\ FetchReturns(out.rows)
           THEN /\ standings' = BuildTable(out.rows)
                /\ pc' = "fetched"
                /\ UNCHANGED fetchIdx
           ELSE /\ fetchIdx' = fetchIdx + 1
                /\ UNCHANGED <<pc, standings>>
    /\ UNCHANGED <<responses, fetchError, draft_df, player_table, per_team_df,
                   weekVars, histVars, saveVars, runVars>>
    /\ UNCHANGED <<viewVars, pandas>>

\* raise RuntimeError("Could not parse NBA standings from ESPN.")
RaiseCouldNotParse ==
    /\ pc = "fetch"
    /\ fetchIdx > Len(Urls)
    /\ pc' = "fetch_failed"
    /\ fetchError' = CouldNotParse
    /\ UNCHANGED <<responses, requested, fetchIdx, calcVars, weekVars, histVars, saveVars,
                   runVars>>
    /\ UNCHANGED <<viewVars, pandas>>

NextFetch == TryUrl \/ RaiseCouldNotParse

SpecFetch == InitFetch /\ [][NextFetch]_vars

\* What the answers are by construction: a section is broken when it is
\* not a JSON object or holds one of the entries that cannot be processed,
\* and it names the teams of its entries.
Broken(sec) ==
    sec.present /\ (sec.shape # "object"
                    \/ \E i \in 1..Len(sec.entries) : sec.entries[i] \in BadEntries)
NamesOf(sec) ==
    {sec.entries[i].team.name :
        i \in {j \in 1..Len(sec.entries) : sec.entries[j].team.name \notin {None, <<>>}}}
SectionsOf(i) ==
    <<responses[i].data.content, responses[i].data.children, responses[i].data.standings>>

\* The section of answer i the rows come from: the first one that names a
\* team, nothing before it broken.
RowSections(i) ==
    {k \in 1..3 :
        /\ responses[i].status = "ok"
        /\ responses[i].data.shape = "object"
        /\ ~Broken(SectionsOf(i)[k])
        /\ NamesOf(SectionsOf(i)[k]) # {}
        /\ \A j \in 1..(k - 1) :
              ~Broken(SectionsOf(i)[j]) /\ NamesOf(SectionsOf(i)[j]) = {}}

\* The URL's answer is parsed without an exception into at least one named
\* team row.
YieldsRow(i) == RowSections(i) # {}

\* The teams of the rows of answer i.
TeamsOf(i) == UNION {NamesOf(SectionsOf(i)[k]) : k \in RowSections(i)}

\* C9: fetch_nba_standings requests the two URLs in list order and returns
\* the table of the first one whose answer yields a named team row; a URL
\* that raises or yields no row is skipped; the second URL is not requested
\* when the first succeeds; the RuntimeError is raised exactly when no URL
\* yields a row.
C9_FirstUrlThatYieldsRows ==
    /\ requested \in {<<>>, <<1>>, <<1, 2>>}
    /\ pc = "fetch" => \A i \in 1..Len(requested) : ~YieldsRow(i)
    /\ pc = "fetched" =>
          /\ YieldsRow(Len(requested))
          /\ \A i \in 1..(Len(requested) - 1) : ~YieldsRow(i)
          /\ YieldsRow(1) => requested = <<1>>
          /\ standings = BuildTable(UrlOutcome(responses[Len(requested)]).rows)
          /\ {standings[k].Team : k \in 1..Len(standings)} = TeamsOf(Len(requested))
          /\ \A k \in 1..(Len(standings) - 1) :
                StrLess(standings[k].Team, standings[k + 1].Team)
          /\ standings # <<>>
          /\ fetchError = ""
    /\ pc = "fetch_failed" =>
          /\ requested = <<1, 2>>
          /\ fetchError = CouldNotParse
    /\ pc \in {"fetched", "fetch_failed"} =>
          (pc = "fetch_failed" <=> (~YieldsRow(1) /\ ~YieldsRow(2)))

\* The first URL's answer raised on wins of NaN after a row was collected,
\* and the table came from the second URL.
C9_Witness ==
    /\ pc = "fetched"
    /\ requested = <<1, 2>>
    /\ responses[1].status = "ok"
    /\ responses[1].data.content = Section(<<HawksEntry, NanEntry>>)
    /\ responses[2].data.content = Absent
    /\ responses[2].data.children = Section(<<Unnamed>>)
    /\ responses[2].data.standings = Section(<<OddEntry, NanRescued>>)
    /\ Len(standings) = 2
    /\ standings[1].Team = Jazz /\ standings[1].W = 2 /\ standings[1].L = 1
    /\ standings[2].W = 1 /\ standings[2].L = 0 - 1
    /\ standings[2].WinPct = [t |-> "float", s |-> <<"-">>, n |-> 1, d |-> 2]

(***************************************************************************)
(* One script run, top to bottom                                           *)
(***************************************************************************)
\* "Wins" if x.strip().lower().startswith("win") else "Losses"
PointTypeOf(x) ==
    IF Prefix(Lower(Strip(x)), 3) = <<"w", "i", "n">> THEN Wins ELSE Losses

\* A cell of record i of ws.get_all_records(), numericised; the "" of
\* df[col] = "" when the tab has no such column.
DraftCell(tab, i, col) ==
    IF col \in DOMAIN tab[i] THEN numericise(tab[i][col]) ELSE VStr(<<>>)

\* A cell of pd.DataFrame(rows): in the dtype of its column.
FrameCell(tab, i, col) ==
    Cast(DraftCell(tab, i, col), DtypeOf({DraftCell(tab, j, col) : j \in 1..Len(tab)}))

\* fillna(value).astype(str) of a cell: a NaN is filled, every other value
\* becomes its str().
FillStr(v, value) == IF v.t = "nan" THEN value ELSE StrOf(v)

\* A cell that fillna() takes for missing: the float NaN, and pd.NA, which
\* replace("", pd.NA) puts for an empty text and the model holds as that
\* empty text.  replace leaves the dtype of the column as it is.
IsNA(v) == v.t = "nan" \/ (v.t = "str" /\ v.s = <<>>)

\* A value as a cell of the frame: a text, or a number that stays one.
CellOf(v) == IF v.t = "str" THEN v.s ELSE Number(v)

\* fillna on an object column, by the pandas of the build: up to 2.x it
\* infers the dtype of the filled column again, so that numbers alone, a
\* float among them, become a float64 column; from 3 on the column stays as
\* it was filled.
FillnaBuilds == {"downcasts", "keeps"}

\* df["TeamAbbr"].fillna(df["Abbr"]) on the columns T and A after replace:
\* a missing cell of T takes the cell of A in its row.  Between numeric
\* columns the value is cast to the dtype of T; otherwise the result is an
\* object column, which the build may convert.
FillFrom(T, A, build) ==
    LET filled == [i \in DOMAIN T |-> IF IsNA(T[i]) THEN A[i] ELSE T[i]]
        dT == DtypeOf({T[i] : i \in DOMAIN T})
        dA == DtypeOf({A[i] : i \in DOMAIN A})
    IN  IF "object" \notin {dT, dA} THEN [i \in DOMAIN T |-> Cast(filled[i], dT)]
        ELSE IF build = "downcasts"
             THEN [i \in DOMAIN T |->
                      Cast(filled[i], DtypeOf({filled[j] : j \in DOMAIN T}))]
             ELSE filled

\* .fillna(""): what is still missing becomes the empty text, every other
\* cell stays what the column holds; no astype(str).
TeamAbbrOf(column, i) == IF IsNA(column[i]) THEN <<>> ELSE CellOf(column[i])

\* read_draft: the Draft tab as the frame of the run, in a build of pandas.
read_draft(tab, build) ==
    LET TeamAbbr == FillFrom([i \in 1..Len(tab) |-> FrameCell(tab, i, "TeamAbbr")],
                             [i \in 1..Len(tab) |-> FrameCell(tab, i, "Abbr")], build)
    IN  [i \in 1..Len(tab) |->
            [Player |-> FillStr(FrameCell(tab, i, "Player"), <<>>),
             PLYR |-> Prefix(FillStr(FrameCell(tab, i, "PLYR"), <<>>), PlyrLen),
             Team |-> normalize_team_name(FillStr(FrameCell(tab, i, "Team"), <<>>)),
             PointType |-> PointTypeOf(FillStr(FrameCell(tab, i, "PointType"), Wins)),
             TeamAbbr |-> TeamAbbrOf(TeamAbbr, i)]]

\* The URLs whose answer is parsed into rows.
Yielding(resps) ==
    {i \in 1..Len(Urls) : ~UrlOutcome(resps[i]).raised /\ FetchReturns(UrlOutcome(resps[i]).rows)}

\* The call of fetch_nba_standings as a whole: the URLs it requested and the
\* table it returned, or the error it raised.
FetchFrom(resps, ok) ==
    IF ok = {} THEN [ok |-> FALSE, requested |-> [i \in 1..Len(Urls) |-> i], table |-> <<>>]
    ELSE [ok |-> TRUE,
          requested |-> [i \in 1..(CHOOSE k \in ok : \A j \in ok : k <= j) |-> i],
          table |-> BuildTable(UrlOutcome(resps[CHOOSE k \in ok : \A j \in ok : k <= j]).rows)]

fetch_nba_standings(resps) == FetchFrom(resps, Yielding(resps))

\* Most script runs of a session.
MaxRuns == 2

\* What the two URLs answer during a run: both fail; the first gives the
\* Hawks; the first is not JSON and the second gives two teams.
NoJson == [status |-> "bad_json",
           data |-> [shape |-> "null", content |-> Absent, children |-> Absent,
                     standings |-> Absent]]
Answer(c, ch) ==
    [status |-> "ok",
     data |-> [shape |-> "object", content |-> c, children |-> ch, standings |-> Absent]]
RunResponses ==
    {<<NoJson, Answer(Section(<<Unnamed>>), NotASection)>>,
     <<Answer(Section(<<HawksEntry>>), Absent), NoJson>>,
     <<NoJson, Answer(Absent, Section(<<HawksRecord, NetsEntry>>))>>}

\* A row typed into the Draft tab.
TypedRow ==
    [Player |-> Bob, PLYR |-> AL, Team |-> <<" ">> \o Hawks,
     PointType |-> <<"w", "i", "n", "s">>, TeamAbbr |-> <<>>]

\* A row typed into the History tab, its WeekStart a year only: the sheet
\* hands it back as the number 2025.
TypedWeek ==
    [DateUTC |-> <<>>, WeekStart |-> <<"2", "0", "2", "5">>, PLYR |-> AL, P |-> <<"1">>,
     GP |-> <<"1">>, NP |-> <<"0">>, Ppct |-> <<"1", "0", "0">>]

\* The Draft and the History tab at the start of a session: both empty, or
\* each with the row typed into it.
StartSheets == {<<<<>>, <<>>>>, <<<<TypedRow>>, <<TypedWeek>>>>}

\* What the data editor returns for the frame it was given: the frame, or
\* the frame with a row added.
RunEdits(df) ==
    {df, Append(df, Entry(AliceJo, AL, Hawks, Wins)),
     Append(df, Entry(Bob, <<>>, LANetsTyped, Losses))}

\* Where the run is after st.stop() in the handler of a failed standings load.
AfterLoadError_GoesOn == "sidebar"

AfterLoadError == "stopped"

\* A History step whose exception ends the run.
AfterHistoryError_Stops == "stopped"

\* Where the run is after the except branch of the History step.
AfterHistoryError == "per_team"

InitRun ==
    /\ pc = "top"
    /\ log = <<>>
    /\ runs = 1
    /\ cache = <<>>
    /\ responses \in RunResponses
    /\ requested = <<>> /\ fetchIdx = 0 /\ fetchError = ""
    /\ \E sheets \in StartSheets : draftTab = sheets[1] /\ historyTab = sheets[2]
    /\ saveResult = ""
    /\ saves = [s \in Sessions |-> NoRequest]
    /\ now = OpeningDay /\ calls = 0 /\ raised = 0
    /\ hist_df = <<>> /\ hist3 = <<>> /\ notice = "" /\ snap = {}
    /\ upserts = [s \in Sessions |-> NoRequest]
    /\ IdleCalc
    /\ IdleWeek
    /\ IdleView
    /\ pandas \in Builds

\* "Hard refresh (no cache)" pressed: the cache is cleared and the script
\* reruns.
HardRefresh ==
    /\ pc = "top"
    /\ cache' = <<>>
    /\ log' = Append(log, "hard_refresh")
    /\ pc' = "rerun"
    /\ UNCHANGED <<calcVars, weekVars, histVars, saveVars, fetchVars, runs>>
    /\ UNCHANGED <<viewVars, pandas>>

\* standings_df = fetch_nba_standings(), through st.cache_data; on an
\* exception st.error and st.stop().
LoadStandings ==
    /\ pc = "top"
    /\ LET res == IF cache # <<>>
                  THEN [ok |-> TRUE, requested |-> <<>>, table |-> cache]
                  ELSE fetch_nba_standings(responses)
       IN  /\ requested' = res.requested
           /\ IF res.ok
              THEN /\ standings' = res.table
                   /\ cache' = res.table
                   /\ fetchError' = ""
                   /\ log' = Append(log, "load_standings")
                   /\ pc' = "sidebar"
              ELSE /\ fetchError' = CouldNotParse
                   /\ log' = Append(log, "load_standings_failed")
                   /\ pc' = AfterLoadError
                   /\ UNCHANGED <<standings, cache>>
    /\ UNCHANGED <<draft_df, player_table, per_team_df, weekVars, histVars, saveVars,
                   responses, fetchIdx, runs>>
    /\ UNCHANGED <<viewVars, pandas>>

\* "Refresh data (clear cache)" pressed.
SidebarRefresh ==
    /\ pc = "sidebar"
    /\ cache' = <<>>
    /\ log' = Append(log, "refresh")
    /\ pc' = "rerun"
    /\ UNCHANGED <<calcVars, weekVars, histVars, saveVars, fetchVars, runs>>
    /\ UNCHANGED <<viewVars, pandas>>

\* draft_df = read_draft(gc); on an exception st.error and st.stop().
ReadDraft(sheetsUp, build) ==
    /\ pc = "sidebar"
    /\ IF sheetsUp
       THEN /\ draft_df' = read_draft(draftTab, build)
            /\ log' = Append(log, "read_draft")
            /\ pc' = "editor"
       ELSE /\ log' = Append(log, "read_draft_failed")
            /\ pc' = "stopped"
            /\ UNCHANGED draft_df
    /\ UNCHANGED <<standings, player_table, per_team_df, weekVars, histVars, saveVars,
                   fetchVars, runs, cache>>
    /\ UNCHANGED <<viewVars, pandas>>

\* "Save Draft to Google Sheets" pressed on the edited frame e: st.stop()
\* after a failed check; otherwise write_draft builds the values and opens
\* the worksheet.
SaveDraftRun(e) ==
    /\ pc = "editor"
    /\ draft_df' = e
    /\ IF SaveOutcome(e) # "saved"
       THEN /\ saveResult' = SaveOutcome(e)
            /\ log' = Append(log, "save_refused")
            /\ pc' = "stopped"
            /\ UNCHANGED saves
       ELSE /\ saveResult' = "checked"
            /\ saves' = [saves EXCEPT ![1] =
                    [at |-> "clear", values |-> write_draft(DfClean(e)), rows |-> {}]]
            /\ log' = Append(log, "write_draft")
            /\ pc' = "saving"
    /\ UNCHANGED <<draftTab, standings, player_table, per_team_df, weekVars, histVars,
                   fetchVars, runs, cache>>
    /\ UNCHANGED <<viewVars, pandas>>

\* ws.clear() of write_draft in the run.
DraftClearRun ==
    /\ pc = "saving"
    /\ saves[1].at = "clear"
    /\ draftTab' = <<>>
    /\ saves' = [saves EXCEPT ![1].at = "update"]
    /\ saveResult' = "cleared"
    /\ UNCHANGED <<pc, calcVars, weekVars, histVars, fetchVars, runVars, viewVars, pandas>>

\* ws.update(values) of write_draft in the run, the success message and
\* force_rerun().
DraftUpdateRun ==
    /\ pc = "saving"
    /\ saves[1].at = "update"
    /\ draftTab' = WsUpdate(draftTab, saves[1].values)
    /\ saves' = [saves EXCEPT ![1] = NoRequest]
    /\ saveResult' = "saved"
    /\ log' = Append(log, "save_draft")
    /\ pc' = "rerun"
    /\ UNCHANGED <<calcVars, weekVars, histVars, fetchVars, runs, cache, viewVars, pandas>>

\* The request write_draft is about to send raises: no except catches it
\* and the run ends with the exception on the page.
DraftRaisesRun ==
    /\ pc = "saving"
    /\ saves[1].at \in {"clear", "update"}
    /\ saves' = [saves EXCEPT ![1] = NoRequest]
    /\ saveResult' = "exception"
    /\ log' = Append(log, "save_draft_raised")
    /\ pc' = "crashed"
    /\ UNCHANGED <<draftTab, calcVars, weekVars, histVars, fetchVars, runs, cache, viewVars,
                   pandas>>

\* player_table_raw, per_team_table_raw = calc_tables(editable_df, standings_df);
\* an exception of calc_tables is not caught and ends the run.
CalcTablesRun(e) ==
    /\ pc = "editor"
    /\ draft_df' = e
    /\ IF CalcRaises(e, standings)
       THEN /\ log' = Append(log, "calc_tables_raised")
            /\ pc' = "crashed"
            /\ UNCHANGED <<player_table, per_team_df>>
       ELSE /\ player_table' = CalcPlayerTable(e, standings)
            /\ per_team_df' = CalcPerTeam(e, standings)
            /\ log' = Append(log, "calc_tables")
            /\ pc' = "player_standings"
    /\ UNCHANGED <<standings, weekVars, histVars, saveVars, fetchVars, runs, cache>>
    /\ UNCHANGED <<viewVars, pandas>>

\* The Player Standings table is displayed.
RenderPlayerStandings ==
    /\ pc = "player_standings"
    /\ log' = Append(log, "player_standings")
    /\ pc' = "history"
    /\ UNCHANGED <<calcVars, weekVars, histVars, saveVars, fetchVars, runs, cache>>
    /\ UNCHANGED <<viewVars, pandas>>

\* The History step begins inside try: upsert_history(gc, player_table_raw)
\* returns at once for an empty player table, without a request; otherwise
\* it reads the tab (line 373) and builds the values it is going to write.
\* The read succeeds (ok) or raises, and then the except branch shows the
\* warning.
UpsertHistoryRun(ok) ==
    /\ pc = "history"
    /\ upserts[1].at = "idle"
    /\ ok \/ player_table # <<>>
    /\ calls' = calls + 1
    /\ upserts' = [upserts EXCEPT ![1] =
            IF ~ok THEN NoRequest
            ELSE IF player_table = <<>>
            THEN [at |-> "read", values |-> <<>>, rows |-> {}]
            ELSE [at |-> "clear",
                  values |-> AsText(UpsertFrame(historyTab, player_table, now)),
                  rows |-> Snapshots(player_table, now)]]
    /\ notice' = IF ok THEN notice ELSE HistorySkipped
    /\ log' = log \o (IF ok THEN <<"upsert_history">>
                      ELSE <<"upsert_history", "history_skipped">>)
    /\ pc' = IF ok THEN "history" ELSE AfterHistoryError
    /\ UNCHANGED <<calcVars, weekVars, historyTab, now, hist_df, hist3, snap, raised,
                   saveVars, fetchVars, runs, cache>>
    /\ UNCHANGED <<viewVars, pandas>>

\* ws.clear() of upsert_history in the run.
UpsertClearRun ==
    /\ pc = "history"
    /\ upserts[1].at = "clear"
    /\ historyTab' = <<>>
    /\ upserts' = [upserts EXCEPT ![1].at = "update"]
    /\ UNCHANGED <<now, calls, hist_df, hist3, notice, snap, raised>>
    /\ UNCHANGED <<pc, calcVars, weekVars, saveVars, fetchVars, runVars, viewVars, pandas>>

\* ws.update(values) of upsert_history in the run.
UpsertUpdateRun ==
    /\ pc = "history"
    /\ upserts[1].at = "update"
    /\ historyTab' = WsUpdate(historyTab, upserts[1].values)
    /\ snap' = Retake(snap, upserts[1].rows)
    /\ upserts' = [upserts EXCEPT ![1] = [at |-> "read", values |-> <<>>, rows |-> {}]]
    /\ UNCHANGED <<now, calls, hist_df, hist3, notice, raised>>
    /\ UNCHANGED <<pc, calcVars, weekVars, saveVars, fetchVars, runVars, viewVars, pandas>>

\* hist_df = read_history(gc) (line 545) and the chart; sorted() may raise
\* on the weeks, and then the except branch shows the warning in place of
\* the chart.
ReadHistoryRun ==
    /\ pc = "history"
    /\ upserts[1].at = "read"
    /\ hist_df' = ChartFrame(historyTab)
    /\ IF ChartRaises(hist_df')
       THEN /\ hist3' = hist3
            /\ notice' = HistorySkipped
            /\ log' = log \o <<"read_history", "history_skipped">>
            /\ pc' = AfterHistoryError
       ELSE /\ hist3' = Hist3(hist_df')
            /\ notice' = ChartNotice(hist_df')
            /\ log' = Append(log, "read_history")
            /\ pc' = "per_team"
    /\ upserts' = [upserts EXCEPT ![1] = NoRequest]
    /\ UNCHANGED <<calcVars, weekVars, historyTab, now, calls, snap, raised, saveVars,
                   fetchVars, runs, cache>>
    /\ UNCHANGED <<viewVars, pandas>>

\* The request the History step is about to send raises (ws.clear(),
\* ws.update() or the read of line 545): the except branch shows the
\* warning.
HistoryRaisesRun ==
    /\ pc = "history"
    /\ upserts[1].at \in {"clear", "update", "read"}
    /\ notice' = HistorySkipped
    /\ upserts' = [upserts EXCEPT ![1] = NoRequest]
    /\ log' = log \o (IF upserts[1].at = "read"
                      THEN <<"read_history", "history_skipped">>
                      ELSE <<"history_skipped">>)
    /\ pc' = AfterHistoryError
    /\ UNCHANGED <<calcVars, weekVars, historyTab, now, calls, hist_df, hist3, snap, raised,
                   saveVars, fetchVars, runs, cache>>
    /\ UNCHANGED <<viewVars, pandas>>

\* The Per-Team Breakdown: the subheader and the filter, then the table
\* when the per-team frame has rows and the st.info text when it has none.
RenderPerTeam ==
    /\ pc = "per_team"
    /\ log' = log \o <<"per_team",
                       IF per_team_df # <<>> THEN "per_team_table" ELSE "per_team_info">>
    /\ pc' = "standings_table"
    /\ UNCHANGED <<calcVars, weekVars, histVars, saveVars, fetchVars, runs, cache>>
    /\ UNCHANGED <<viewVars, pandas>>

\* The NBA Standings table is displayed.
RenderStandings ==
    /\ pc = "standings_table"
    /\ log' = Append(log, "standings_table")
    /\ pc' = "export"
    /\ UNCHANGED <<calcVars, weekVars, histVars, saveVars, fetchVars, runs, cache>>
    /\ UNCHANGED <<viewVars, pandas>>

\* The export button, pressed or not, and the end of the script.
Finish(pressed) ==
    /\ pc = "export"
    /\ log' = IF pressed THEN Append(log, "export_teams") ELSE log
    /\ pc' = "done"
    /\ UNCHANGED <<calcVars, weekVars, histVars, saveVars, fetchVars, runs, cache>>
    /\ UNCHANGED <<viewVars, pandas>>

\* The next script run, on a rerun or a user interaction: the script starts
\* from the top with none of the last run's variables; the sheet, the clock
\* and the cache entry stay, and the cache entry may have expired.
NewRun(resps, expired) ==
    /\ pc \in {"done", "stopped", "rerun", "crashed"}
    /\ runs < MaxRuns
    /\ runs' = runs + 1
    /\ log' = <<>>
    /\ responses' = resps
    /\ cache' = IF expired THEN <<>> ELSE cache
    /\ pc' = "top"
    /\ draft_df' = <<>> /\ standings' = <<>> /\ player_table' = <<>> /\ per_team_df' = <<>>
    /\ hist_df' = <<>> /\ hist3' = <<>> /\ notice' = ""
    /\ saveResult' = ""
    /\ requested' = <<>> /\ fetchError' = ""
    /\ UNCHANGED <<weekVars, historyTab, now, calls, snap, upserts, raised, draftTab, saves,
                   fetchIdx>>
    /\ UNCHANGED <<viewVars, pandas>>

\* The session is not alone on the sheet.  The frame another session has in
\* its editor:
OtherFrame == <<Entry(AliceJo, AL, Hawks, Wins)>>

\* Another session's Save Draft passes the checks and write_draft builds
\* its values, while the run is about to read or is writing the Draft tab.
OtherSaveDraft ==
    /\ pc \in {"sidebar", "saving"}
    /\ saves[2].at = "idle"
    /\ SaveOutcome(OtherFrame) = "saved"
    /\ saves' = [saves EXCEPT ![2] =
            [at |-> "clear", values |-> write_draft(DfClean(OtherFrame)), rows |-> {}]]
    /\ UNCHANGED <<pc, draftTab, saveResult, calcVars, weekVars, histVars, fetchVars, runVars,
                   viewVars, pandas>>

\* ws.clear() of the other session's write_draft.
OtherDraftClear ==
    /\ pc \in {"sidebar", "saving"}
    /\ saves[2].at = "clear"
    /\ draftTab' = <<>>
    /\ saves' = [saves EXCEPT ![2].at = "update"]
    /\ UNCHANGED <<pc, saveResult, calcVars, weekVars, histVars, fetchVars, runVars, viewVars,
                   pandas>>

\* ws.update(values) of the other session's write_draft.
OtherDraftUpdate ==
    /\ pc \in {"sidebar", "saving"}
    /\ saves[2].at = "update"
    /\ draftTab' = WsUpdate(draftTab, saves[2].values)
    /\ saves' = [saves EXCEPT ![2] = NoRequest]
    /\ UNCHANGED <<pc, saveResult, calcVars, weekVars, histVars, fetchVars, runVars, viewVars,
                   pandas>>

\* Another session's upsert_history reads the tab and builds its values,
\* while the run is in its History step.
OtherUpsert ==
    /\ pc = "history"
    /\ upserts[2].at = "idle"
    /\ ~CalcRaises(OtherFrame, standings)
    /\ CalcPlayerTable(OtherFrame, standings) # <<>>
    /\ upserts' = [upserts EXCEPT ![2] =
            [at |-> "clear",
             values |-> AsText(UpsertFrame(historyTab,
                                           CalcPlayerTable(OtherFrame, standings), now)),
             rows |-> Snapshots(CalcPlayerTable(OtherFrame, standings), now)]]
    /\ UNCHANGED <<historyTab, now, calls, hist_df, hist3, notice, snap, raised>>
    /\ UNCHANGED <<pc, calcVars, weekVars, saveVars, fetchVars, runVars, viewVars, pandas>>

\* ws.clear() of the other session's upsert_history.
OtherHistoryClear ==
    /\ pc = "history"
    /\ upserts[2].at = "clear"
    /\ historyTab' = <<>>
    /\ upserts' = [upserts EXCEPT ![2].at = "update"]
    /\ UNCHANGED <<now, calls, hist_df, hist3, notice, snap, raised>>
    /\ UNCHANGED <<pc, calcVars, weekVars, saveVars, fetchVars, runVars, viewVars, pandas>>

\* ws.update(values) of the other session's upsert_history.
OtherHistoryUpdate ==
    /\ pc = "history"
    /\ upserts[2].at = "update"
    /\ historyTab' = WsUpdate(historyTab, upserts[2].values)
    /\ snap' = Retake(snap, upserts[2].rows)
    /\ upserts' = [upserts EXCEPT ![2] = NoRequest]
    /\ UNCHANGED <<now, calls, hist_df, hist3, notice, raised>>
    /\ UNCHANGED <<pc, calcVars, weekVars, saveVars, fetchVars, runVars, viewVars, pandas>>

NextRun ==
    \/ HardRefresh
    \/ LoadStandings
    \/ SidebarRefresh
    \/ \E sheetsUp \in BOOLEAN, build \in FillnaBuilds : ReadDraft(sheetsUp, build)
    \/ \E e \in RunEdits(draft_df) : SaveDraftRun(e)
    \/ DraftClearRun
    \/ DraftUpdateRun
    \/ DraftRaisesRun
    \/ \E e \in RunEdits(draft_df) : CalcTablesRun(e)
    \/ RenderPlayerStandings
    \/ \E ok \in BOOLEAN : UpsertHistoryRun(ok)
    \/ UpsertClearRun
    \/ UpsertUpdateRun
    \/ ReadHistoryRun
    \/ HistoryRaisesRun
    \/ OtherSaveDraft
    \/ OtherDraftClear
    \/ OtherDraftUpdate
    \/ OtherUpsert
    \/ OtherHistoryClear
    \/ OtherHistoryUpdate
    \/ RenderPerTeam
    \/ RenderStandings
    \/ \E pressed \in BOOLEAN : Finish(pressed)
    \/ \E resps \in RunResponses, expired \in BOOLEAN : NewRun(resps, expired)

SpecRun == InitRun /\ [][NextRun]_vars

\* The steps of the run so far.
Done == {log[i] : i \in 1..Len(log)}

\* The place of a step in the script.
StepRank(step) ==
    CASE step \in {"hard_refresh"} -> 0
      [] step \in {"load_standings", "load_standings_failed"} -> 1
      [] step \in {"refresh"} -> 2
      [] step \in {"read_draft", "read_draft_failed"} -> 3
      [] step \in {"write_draft", "save_refused"} -> 4
      [] step \in {"save_draft", "save_draft_raised"} -> 5
      [] step \in {"calc_tables", "calc_tables_raised"} -> 6
      [] step \in {"player_standings"} -> 7
      [] step \in {"upsert_history"} -> 8
      [] step \in {"read_history"} -> 9
      [] step \in {"history_skipped"} -> 10
      [] step \in {"per_team"} -> 11
      [] step \in {"per_team_table", "per_team_info"} -> 12
      [] step \in {"standings_table"} -> 13
      [] step \in {"export_teams"} -> 14

\* The steps that read or write the Google Sheet.
SheetSteps ==
    {"read_draft", "read_draft_failed", "write_draft", "save_draft", "save_draft_raised",
     "upsert_history", "read_history", "export_teams"}

\* The requests of the run's own write_draft and History step in flight.
Sending == saves[1].at # "idle" \/ upserts[1].at # "idle"

\* C10: the steps of one script run happen in the order load standings, read
\* Draft, save Draft, compute tables, upsert History, per-team table,
\* standings table; a failed standings load stops the run before any Google
\* Sheets read or write, a failed Draft read stops it before the tables are
\* computed, and upsert_history runs only in a run whose standings load and
\* Draft read succeeded.
C10_RunOrder ==
    /\ \A i, j \in 1..Len(log) : i < j => StepRank(log[i]) < StepRank(log[j])
    /\ "load_standings_failed" \in Done =>
          /\ pc = "stopped"
          /\ log[Len(log)] = "load_standings_failed"
          /\ Done \cap SheetSteps = {}
    /\ "read_draft_failed" \in Done =>
          /\ pc = "stopped"
          /\ "calc_tables" \notin Done
          /\ "upsert_history" \notin Done
    /\ Sending => {"load_standings", "read_draft"} \subseteq Done
    /\ saves[1].at # "idle" => pc = "saving" /\ log[Len(log)] = "write_draft"
    /\ upserts[1].at # "idle" => pc = "history" /\ "upsert_history" \in Done
    /\ "read_draft" \in Done => "load_standings" \in Done
    /\ "write_draft" \in Done => {"load_standings", "read_draft"} \subseteq Done
    /\ "save_draft" \in Done => "write_draft" \in Done
    /\ "calc_tables" \in Done =>
          /\ {"load_standings", "read_draft"} \subseteq Done
          /\ "write_draft" \notin Done
    /\ "upsert_history" \in Done =>
          {"load_standings", "read_draft", "calc_tables", "player_standings"} \subseteq Done
    /\ "per_team" \in Done => "upsert_history" \in Done
    /\ "standings_table" \in Done => "per_team" \in Done

\* The second run of a session failed to load the standings and stopped,
\* after a first run that wrote the History tab.
C10_Witness ==
    /\ runs = 2
    /\ pc = "stopped"
    /\ log = <<"load_standings_failed">>
    /\ snap # {}
    /\ historyTab # <<>>

\* The tables below the History step are displayed once the run has reached
\* them.
SpecRunFair == SpecRun /\ WF_vars(RenderPerTeam) /\ WF_vars(RenderStandings)

\* The run took the except branch of the History step.
Skipped == "history_skipped" \in Done

C11_SkippedRunGoesOn ==
    /\ pc = "history" => "player_standings" \in Done
    /\ Skipped =>
          /\ notice = HistorySkipped
          /\ "player_standings" \in Done
          /\ pc \in {"per_team", "standings_table", "export", "done"}
          /\ pc # "per_team" => "per_team" \in Done
          /\ pc \in {"export", "done"} => "standings_table" \in Done
    /\ "per_team" \in Done =>
          IF per_team_df # <<>> THEN "per_team_table" \in Done ELSE "per_team_info" \in Done

\* C11: an exception of upsert_history, read_history or the chart
\* construction is caught: the "History logging skipped" warning is shown,
\* the run is not stopped and goes on to the Per-Team Breakdown (its table
\* when the per-team frame has rows, its st.info text in place of the table
\* when the frame has none) and to the NBA Standings table; the Player
\* Standings table was displayed before the History step.
C11_HistoryFailureIsNotFatal ==
    /\ [](C11_SkippedRunGoesOn)
    /\ (Skipped ~> (Skipped /\ {"per_team", "standings_table"} \subseteq Done))

\* A run whose History read failed after the upsert had written the tab has
\* displayed all three tables.
C11_Witness ==
    /\ pc = "done"
    /\ log = <<"load_standings", "read_draft", "calc_tables", "player_standings",
               "upsert_history", "read_history", "history_skipped", "per_team",
               "per_team_table", "standings_table">>
    /\ notice = HistorySkipped
    /\ snap # {}
    /\ historyTab # <<>>

(***************************************************************************)
(* The displayed tables: Player Standings and the Per-Team Breakdown       *)
(***************************************************************************)
\* display_with_index: the frame with the "#" column, 1..n from the top.
display_with_index(df) ==
    [i \in 1..Len(df) |-> [idx |-> i, row |-> df[i]]]

\* player_table_raw[["PLYR", "GP", "P", "NP", "P%", "TMF"]]
PlayerCols(r) ==
    [PLYR |-> r.PLYR, GP |-> r.GP, P |-> r.P, NP |-> r.NP, Ppct |-> r.Ppct, TMF |-> r.TMF]

\* ptm[cols]: the columns of the Per-Team Breakdown.
PerTeamCols(r) ==
    [PLYR |-> r.PLYR, TM |-> r.TM, PT |-> r.PT, P |-> r.P, Ppct |-> r.Ppct, W |-> r.W,
     L |-> r.L, Wpct |-> r.Wpct, GP |-> r.GP, TMF |-> r.TMF]

All == <<"A", "l", "l">>

\* players_filter: "All" and the Player values of the edited frame.
PlayersFilter(df) == {All} \cup {df[i].Player : i \in {k \in 1..Len(df) : df[k].Player # None}}

\* full_to_plyr.get(who, None): the PLYR of the last row of that Player.
SelPlyr(df, w) ==
    IF \E i \in 1..Len(df) : df[i].Player = w
    THEN df[CHOOSE i \in 1..Len(df) :
                df[i].Player = w /\ \A j \in 1..Len(df) : df[j].Player = w => j <= i].PLYR
    ELSE None

\* The Per-Team Breakdown for the choice w: all rows, or the rows whose PLYR
\* is the chosen Player's PLYR, or none when that PLYR is empty.
FilterPerTeam(table, df, w) ==
    IF w = All THEN table
    ELSE IF Truthy(SelPlyr(df, w))
         THEN SelectRows(table, {i \in 1..Len(table) : table[i].PLYR = SelPlyr(df, w)})
         ELSE <<>>

\* The Player Standings table is displayed.
ShowPlayerStandings ==
    /\ pc = "tables"
    /\ pt_display' = display_with_index([i \in 1..Len(player_table) |->
                                            PlayerCols(player_table[i])])
    /\ pc' = "standings_shown"
    /\ UNCHANGED <<calcVars, weekVars, histVars, saveVars, fetchVars, runVars, who, ptm,
                   pandas>>

\* The Per-Team Breakdown is displayed for the choice w of the selectbox.
ShowPerTeam(w) ==
    /\ pc = "standings_shown"
    /\ who' = w
    /\ ptm' = display_with_index(
                  LET shown == FilterPerTeam(per_team_df, draft_df, w)
                  IN  [i \in 1..Len(shown) |-> PerTeamCols(shown[i])])
    /\ pc' = "per_team_shown"
    /\ UNCHANGED <<calcVars, weekVars, histVars, saveVars, fetchVars, runVars, pt_display,
                   pandas>>

NextView ==
    \/ CalcTables
    \/ ShowPlayerStandings
    \/ \E w \in PlayersFilter(draft_df) : ShowPerTeam(w)

\* The tables are displayed where calc_tables returns them; with a PLYR
\* without games it returns them under a pandas whose round() skips object
\* columns and raises under the other.
InitView == BeforeCalc /\ pandas \in Builds

SpecView == InitView /\ [][NextView]_vars

\* C12: the displayed Player Standings rows are ordered by P% descending,
\* then P descending, then GP descending; "#" numbers them 1..n from the
\* top; a player with GP = 0 has P% = 0 and is not above a player with
\* P% > 0.
C12_PlayerStandingsOrder ==
    pc \in {"standings_shown", "per_team_shown"} =>
        /\ Len(pt_display) = Len(player_table)
        /\ \A i \in 1..Len(pt_display) :
              /\ pt_display[i].idx = i
              /\ pt_display[i].row.GP = 0 => pt_display[i].row.Ppct.n = 0
        /\ \A i \in 1..(Len(pt_display) - 1) :
              LET a == pt_display[i].row
                  b == pt_display[i + 1].row
              IN  \/ PctLess(b.Ppct, a.Ppct)
                  \/ PctEq(a.Ppct, b.Ppct) /\ a.P > b.P
                  \/ PctEq(a.Ppct, b.Ppct) /\ a.P = b.P /\ a.GP >= b.GP
        /\ \A i, j \in 1..Len(pt_display) :
              (pt_display[i].row.GP = 0 /\ pt_display[j].row.Ppct.n > 0) => j < i

\* Three players are displayed: two with the same P%, the one with more
\* points first, and one without games last.
C12_Witness ==
    /\ pc = "standings_shown"
    /\ Len(pt_display) = 3
    /\ PctEq(pt_display[1].row.Ppct, pt_display[2].row.Ppct)
    /\ pt_display[1].row.P > pt_display[2].row.P
    /\ pt_display[2].row.Ppct.n > 0
    /\ pt_display[3].row.GP = 0

\* The per-team rows computed from the draft entries of Player w alone.
RowsOfPlayer(w) ==
    LET own == SelectRows(draft_df, {i \in 1..Len(draft_df) : draft_df[i].Player = w})
        rows == CalcPerTeam(own, standings)
    IN  [i \in 1..Len(rows) |-> PerTeamCols(rows[i])]

\* How often a row is in a frame.
Count(rows, r) == Cardinality({i \in 1..Len(rows) : rows[i] = r})

\* C13: with a player other than "All" chosen, the Per-Team Breakdown shows
\* exactly the per-team rows computed from that Player's draft entries, also
\* when the Player's PLYR cell is empty, when the Player's rows carry
\* different PLYR values and when two Players share a PLYR.
C13_FilterShowsThePlayersRows ==
    (pc = "per_team_shown" /\ who # All) =>
        LET shown == [i \in 1..Len(ptm) |-> ptm[i].row]
            own == RowsOfPlayer(who)
        IN  /\ Len(shown) = Len(own)
            /\ \A i \in 1..Len(own) : Count(shown, own[i]) = Count(own, own[i])

====
